---- MODULE Spec2Model ----
(***************************************************************************)
(* SquadSafe agent: the action provider that turns named, schema-typed     *)
(* actions into calls of the SquadSafeVault contract.                      *)
(*                                                                         *)
(* A dispatch of action `name` with `args` is the invocation of the method *)
(* that @CreateAction registered under `name`.  Each method runs           *)
(* synchronously through its checks and its encoding, hands one            *)
(* transaction to walletProvider.sendTransaction (the transaction          *)
(* submitter), is suspended at that await, and ends when the submitter     *)
(* resolves or rejects.                                                    *)
(*                                                                         *)
(* Strings are sequences of one-character strings, so that the string      *)
(* functions of JavaScript and viem are computed, not assumed.             *)
(***************************************************************************)
EXTENDS Integers, Sequences, FiniteSets, TLC

(***************************************************************************)
(* Characters and strings                                                  *)
(***************************************************************************)
Digits == {"0", "1", "2", "3", "4", "5", "6", "7", "8", "9"}

LowerHex == {"a", "b", "c", "d", "e", "f"}

UpperHex == {"A", "B", "C", "D", "E", "F"}

HexChars == Digits \cup LowerHex \cup UpperHex

DigitVal == [d \in Digits |->
               CASE d = "0" -> 0 [] d = "1" -> 1 [] d = "2" -> 2 [] d = "3" -> 3
                 [] d = "4" -> 4 [] d = "5" -> 5 [] d = "6" -> 6 [] d = "7" -> 7
                 [] d = "8" -> 8 [] d = "9" -> 9]

DigitChar == [n \in 0..9 |-> CHOOSE d \in Digits : DigitVal[d] = n]

LowerOf == [ch \in UpperHex |->
              CASE ch = "A" -> "a" [] ch = "B" -> "b" [] ch = "C" -> "c"
                [] ch = "D" -> "d" [] ch = "E" -> "e" [] ch = "F" -> "f"]

\* String.prototype.toLowerCase on the characters an address can hold.
toLowerCase(s) == [i \in 1..Len(s) |-> IF s[i] \in UpperHex THEN LowerOf[s[i]] ELSE s[i]]

AllIn(s, S) == \A i \in 1..Len(s) : s[i] \in S

\* Index of the first occurrence of ch in s, 0 when there is none.
IndexOf(s, ch) ==
    IF \E i \in 1..Len(s) : s[i] = ch
    THEN CHOOSE i \in 1..Len(s) : s[i] = ch /\ \A j \in 1..(i - 1) : s[j] # ch
    ELSE 0

Zeros(n) == [i \in 1..n |-> "0"]

RECURSIVE StripLeadingZeros(_)
StripLeadingZeros(ds) ==
    IF Len(ds) > 1 /\ Head(ds) = "0" THEN StripLeadingZeros(Tail(ds))
    ELSE IF Len(ds) = 0 THEN <<"0">> ELSE ds

RECURSIVE StripTrailingZeros(_)
StripTrailingZeros(ds) ==
    IF Len(ds) > 0 /\ ds[Len(ds)] = "0" THEN StripTrailingZeros(SubSeq(ds, 1, Len(ds) - 1))
    ELSE ds

IsZeroDigits(ds) == AllIn(ds, {"0"})

(***************************************************************************)
(* Sample addresses (42-character strings)                                 *)
(***************************************************************************)
zeroAddress == <<"0","x","0","0","0","0","0","0","0","0","0","0","0","0","0","0","0","0","0","0","0","0","0","0","0","0","0","0","0","0","0","0","0","0","0","0","0","0","0","0","0","0">>

LowerAddress == <<"0","x","a","b","c","d","e","f","a","b","c","d","e","f","a","b","c","d","e","f","a","b","c","d","e","f","a","b","c","d","e","f","a","b","c","d","e","f","a","b","c","d">>

\* The USDC address the agent's prompt quotes, in its checksummed casing.
UsdcAddress == <<"0","x","0","3","6","C","b","D","5","3","8","4","2","c","5","4","2","6","6","3","4","e","7","9","2","9","5","4","1","e","C","2","3","1","8","f","3","d","C","F","7","e">>

\* The same address with one letter's case flipped: mixed case, wrong checksum.
BadChecksumAddress == <<"0","x","0","3","6","c","b","D","5","3","8","4","2","c","5","4","2","6","6","3","4","e","7","9","2","9","5","4","1","e","C","2","3","1","8","f","3","d","C","F","7","e">>

ShortAddress == <<"0","x","1","2","3">>

VaultAddressA == <<"0","x","1","1","1","1","1","1","1","1","1","1","1","1","1","1","1","1","1","1","1","1","1","1","1","1","1","1","1","1","1","1","1","1","1","1","1","1","1","1","1","1">>

VaultAddressB == <<"0","x","2","2","2","2","2","2","2","2","2","2","2","2","2","2","2","2","2","2","2","2","2","2","2","2","2","2","2","2","2","2","2","2","2","2","2","2","2","2","2","2">>

(***************************************************************************)
(* viem isAddress (strict): the 0x + 40 hex digits format, and for a       *)
(* string that is not all lower case the EIP-55 checksum casing.           *)
(***************************************************************************)
\* checksumAddress is a keccak-256 of the lower-case address; it is tabled here
\* for the one mixed-case address the samples hold.
ChecksumTable == [a \in {toLowerCase(UsdcAddress)} |-> UsdcAddress]

checksumAddress(a) == ChecksumTable[toLowerCase(a)]

addressRegex(s) ==
    /\ Len(s) = 42
    /\ s[1] = "0"
    /\ s[2] = "x"
    /\ \A i \in 3..Len(s) : s[i] \in HexChars

isAddress(s) ==
    /\ addressRegex(s)
    /\ \/ toLowerCase(s) = s
       \/ checksumAddress(s) = s

(***************************************************************************)
(* JavaScript values of the schema type string | number.                   *)
(* A number is held as a decimal: sign, integer digits, fraction digits.   *)
(***************************************************************************)
NaN == [nan |-> TRUE, neg |-> FALSE, int |-> <<"0">>, frac |-> <<>>]

Decimal(neg, int, frac) ==
    [nan |-> FALSE, neg |-> neg, int |-> StripLeadingZeros(int), frac |-> StripTrailingZeros(frac)]

JsString(s) == [t |-> "string", s |-> s, n |-> NaN]

JsNumber(n) == [t |-> "number", s |-> <<>>, n |-> n]

IsZeroNumber(n) == ~n.nan /\ IsZeroDigits(n.int) /\ IsZeroDigits(n.frac)

\* StringToNumber for strings over digits, sign, point and letters a..f:
\* "" is 0, [+-]digits[.digits] and [+-].digits are decimals, all else NaN.
StringToNumber(s) ==
    IF Len(s) = 0 THEN Decimal(FALSE, <<"0">>, <<>>)
    ELSE LET signed == s[1] \in {"-", "+"}
             body   == IF signed THEN Tail(s) ELSE s
             dot    == IndexOf(body, ".")
             int    == IF dot = 0 THEN body ELSE SubSeq(body, 1, dot - 1)
             frac   == IF dot = 0 THEN <<>> ELSE SubSeq(body, dot + 1, Len(body))
         IN  IF AllIn(int, Digits) /\ AllIn(frac, Digits) /\ Len(int) + Len(frac) > 0
             THEN Decimal(s[1] = "-", int, frac)
             ELSE NaN

\* Number(v)
Number(v) == IF v.t = "number" THEN v.n ELSE StringToNumber(v.s)

\* Number(v) <= 0 and Number(v) < 0: every comparison with NaN is false, and -0 < 0 is false.
LeqZero(n) == ~n.nan /\ (n.neg \/ IsZeroNumber(n))

LtZero(n) == ~n.nan /\ n.neg /\ ~IsZeroNumber(n)

\* !v : the falsy values are 0, -0, NaN and "".
Falsy(v) == IF v.t = "number" THEN v.n.nan \/ IsZeroNumber(v.n) ELSE Len(v.s) = 0

(***************************************************************************)
(* BigInt: sign and decimal digits without leading zeros.                  *)
(***************************************************************************)
Big(neg, digits) ==
    LET ds == StripLeadingZeros(digits)
    IN  [ok |-> TRUE, err |-> "", neg |-> neg /\ ~IsZeroDigits(ds), digits |-> ds]

BigError(name) == [ok |-> FALSE, err |-> name, neg |-> FALSE, digits |-> <<"0">>]

\* BigInt(v): a number must be an integer (RangeError), a string an optionally
\* signed run of digits or empty (SyntaxError).
BigInt(v) ==
    IF v.t = "number"
    THEN IF v.n.nan \/ ~IsZeroDigits(v.n.frac) THEN BigError("RangeError")
         ELSE Big(v.n.neg, v.n.int)
    ELSE IF Len(v.s) = 0 THEN Big(FALSE, <<"0">>)
         ELSE LET signed == v.s[1] \in {"-", "+"}
                  body   == IF signed THEN Tail(v.s) ELSE v.s
              IN  IF Len(body) > 0 /\ AllIn(body, Digits)
                  THEN Big(v.s[1] = "-", body)
                  ELSE BigError("SyntaxError")

\* digits + 1
RECURSIVE IncDigits(_)
IncDigits(ds) ==
    IF Len(ds) = 0 THEN <<"1">>
    ELSE LET last == DigitVal[ds[Len(ds)]]
             init == SubSeq(ds, 1, Len(ds) - 1)
         IN  IF last < 9 THEN Append(init, DigitChar[last + 1])
             ELSE Append(IncDigits(init), "0")

PadStart(ds, n) == IF Len(ds) < n THEN Zeros(n - Len(ds)) \o ds ELSE ds

PadEnd(ds, n) == IF Len(ds) < n THEN ds \o Zeros(n - Len(ds)) ELSE ds

(***************************************************************************)
(* viem parseUnits / parseEther: a decimal string to a fixed-point BigInt. *)
(* The string must be an optional minus sign, digits, an optional point    *)
(* and digits (each run of digits possibly empty); the fraction is padded  *)
(* to `decimals` digits, or rounded half up when it is longer.             *)
(***************************************************************************)
parseUnits(value, decimals) ==
    LET negative == Len(value) > 0 /\ value[1] = "-"
        body     == IF negative THEN Tail(value) ELSE value
        dot      == IndexOf(body, ".")
        integer  == IF dot = 0 THEN body ELSE SubSeq(body, 1, dot - 1)
        fraction == IF dot = 0 THEN <<"0">> ELSE SubSeq(body, dot + 1, Len(body))
        trimmed  == StripTrailingZeros(fraction)
        left     == SubSeq(trimmed, 1, decimals - 1)
        unit     == DigitVal[trimmed[decimals]]
        rounded  == IF DigitVal[trimmed[decimals + 1]] >= 5 THEN unit + 1 ELSE unit
        carried  == IF rounded > 9
                    THEN PadStart(Append(IncDigits(StripLeadingZeros(left)), "0"), Len(left) + 1)
                    ELSE Append(left, DigitChar[rounded])
        overflow == Len(carried) > decimals
    IN  IF ~(AllIn(integer, Digits) /\ AllIn(fraction, Digits))
        THEN BigError("InvalidDecimalNumberError")
        ELSE IF Len(trimmed) > decimals
        THEN Big(negative,
                 (IF overflow THEN IncDigits(StripLeadingZeros(integer)) ELSE integer)
                   \o SubSeq(IF overflow THEN Tail(carried) ELSE carried, 1, decimals))
        ELSE Big(negative, integer \o PadEnd(trimmed, decimals))

\* parseEther scaling by nine decimals (gwei) instead of eighteen.
parseEther_gwei(ether) == parseUnits(ether, 9)

parseEther(ether) == parseUnits(ether, 18)

(***************************************************************************)
(* viem encodeFunctionData, as the function name and the list of encoded   *)
(* argument words.  An address is checked with isAddress and lower-cased;  *)
(* a uint256 goes through BigInt and must lie in 0 .. 2^256 - 1.           *)
(***************************************************************************)
MaxUint256Digits == <<"1","1","5","7","9","2","0","8","9","2","3","7","3","1","6","1","9","5","4","2","3","5","7","0","9","8","5","0","0","8","6","8","7","9","0","7","8","5","3","2","6","9","9","8","4","6","6","5","6","4","0","5","6","4","0","3","9","4","5","7","5","8","4","0","0","7","9","1","3","1","2","9","6","3","9","9","3","5">>

\* a > b for digit strings without leading zeros
DigitsGreater(a, b) ==
    \/ Len(a) > Len(b)
    \/ /\ Len(a) = Len(b)
       /\ \E i \in 1..Len(a) :
            /\ DigitVal[a[i]] > DigitVal[b[i]]
            /\ \A j \in 1..(i - 1) : a[j] = b[j]

Word(w) == [ok |-> TRUE, err |-> "", word |-> w]

WordError(name) == [ok |-> FALSE, err |-> name, word |-> <<>>]

\* The address encoded as its forty hex digits, without the 0x in front.
encodeAddress_noPrefix(value) ==
    IF isAddress(value) THEN Word(SubSeq(toLowerCase(value), 3, Len(value)))
    ELSE WordError("InvalidAddressError")

encodeAddress(value) ==
    IF isAddress(value) THEN Word(toLowerCase(value)) ELSE WordError("InvalidAddressError")

\* A uint256 argument given as a BigInt.
encodeNumber(b) ==
    IF ~b.ok THEN WordError(b.err)
    ELSE IF b.neg \/ DigitsGreater(b.digits, MaxUint256Digits)
    THEN WordError("IntegerOutOfRangeError")
    ELSE Word(b.digits)

encodeBool(value) == Word(IF value THEN <<"t","r","u","e">> ELSE <<"f","a","l","s","e">>)

encodeString(value) == Word(value)

\* words: the encoded arguments, in the order of the ABI function's inputs.
encodeFunctionData(functionName, words) ==
    IF \E i \in 1..Len(words) : ~words[i].ok
    THEN LET first == CHOOSE i \in 1..Len(words) :
                        ~words[i].ok /\ \A j \in 1..(i - 1) : words[j].ok
         IN  [ok |-> FALSE, err |-> words[first].err, functionName |-> functionName, args |-> <<>>]
    ELSE [ok |-> TRUE, err |-> "", functionName |-> functionName,
          args |-> [i \in 1..Len(words) |-> words[i].word]]

(***************************************************************************)
(* Bounds and sampled inputs                                               *)
(***************************************************************************)
\* Dispatches counted before the counter stops growing.
MaxDispatches == 2

\* Calls that can be in flight; the sequential specification drives the first.
Calls == {"c1", "c2"}

SeqCalls == {"c1"}

\* Values of the environment variable SQUADSAFE_VAULT_ADDRESS.
VaultAddresses == {VaultAddressA, VaultAddressB}

AddressInputs == {zeroAddress, LowerAddress, UsdcAddress, BadChecksumAddress, ShortAddress}

\* The smallest amount parseEther tells from zero: 0.000000000000000001.
OneWeiString == <<"0", ".">> \o Zeros(17) \o <<"1">>

AmountInputs ==
    { JsNumber(Decimal(TRUE, <<"1">>, <<>>)),           \* -1
      JsNumber(Decimal(FALSE, <<"0">>, <<>>)),          \* 0
      JsNumber(Decimal(FALSE, <<"1">>, <<>>)),          \* 1
      JsNumber(Decimal(FALSE, <<"3">>, <<>>)),          \* 3
      JsNumber(Decimal(FALSE, <<"1">>, <<"5">>)),       \* 1.5
      JsString(<<"0", ".", "1">>),
      JsString(<<"1">>),
      JsString(<<"0">>),
      JsString(<<"-", "1">>),
      JsString(<<"1", ".", "5">>),
      JsString(OneWeiString),
      JsString(<<"a", "b", "c">>),
      JsString(<<".">>),
      JsString(<<>>) }

ReasonInputs == {<<"t", "e", "s", "t">>}

\* The names @CreateAction registers, and names it does not.
ActionNames ==
    {"propose", "voteOnProposal", "executeProposal", "addMember", "removeMember",
     "setMinVotes", "setVotingPeriod"}

UnknownNames == {"createProposal", "transferOwnership"}

NameInputs == ActionNames \cup UnknownNames

\* The args values of each schema (the zod schemas type them; they do not
\* restrict the strings and numbers).
ArgsInputs(name) ==
    CASE name = "propose" ->
           [token : AddressInputs, amount : AmountInputs, to : AddressInputs, reason : ReasonInputs]
      [] name = "voteOnProposal" -> [proposalId : AmountInputs, support : BOOLEAN]
      [] name = "executeProposal" -> [proposalId : AmountInputs]
      [] name = "addMember" -> [newMember : AddressInputs]
      [] name = "removeMember" -> [member : AddressInputs]
      [] name = "setMinVotes" -> [minVotes : AmountInputs]
      [] name = "setVotingPeriod" -> [period : AmountInputs]
      [] OTHER -> [proposalId : {JsNumber(Decimal(FALSE, <<"1">>, <<>>))}]

\* What the submitter can answer: a transaction hash, or an error with its text.
TxHashes == {"0x9f3c01", "0x77ab02"}

SubmitterErrors == {"timeout of 10000ms exceeded", "insufficient funds for gas * price + value"}

(***************************************************************************)
(* State                                                                   *)
(***************************************************************************)
VARIABLES
    contractAddress,  \* SquadSafeActionProvider.contractAddress
    registry,         \* the action names @CreateAction registered
    call,             \* call[c]: one dispatch, from its invocation to its end
    nDispatched,      \* dispatches started so far (capped)
    env,              \* process.env: the key variables the scripts read
    disk,             \* the files the key manager and the wallet store keep
    console,          \* what console.log, console.error and their kin wrote
    keyRuns,          \* the results of the calls of loadOrCreateKeys, in order
    inbox,            \* the messages the stream of all messages has yielded
    listener,         \* startMessageListener: its agent, where it is, what it took
    handlers,         \* handlers[m]: the execution of handleMessage for message m
    outbox,           \* the calls of conversation.send, in order
    walletRuns,       \* the calls of CdpWalletProvider.configureWithWallet, in order
    script,           \* the end-to-end script: where main is, what it submitted and got
    signer            \* the signer-based provider: the action in flight and its result

\* The provider's own state, and the state of the agent around it, which the
\* provider's methods neither read nor write.
providerVars == <<contractAddress, registry, call, nDispatched>>

chatVars == <<inbox, listener, handlers, outbox, walletRuns>>

toolVars == <<script, signer>>

agentVars == <<env, disk, console, keyRuns, chatVars, toolVars>>

vars == <<contractAddress, registry, call, nDispatched, env, disk, console, keyRuns,
          inbox, listener, handlers, outbox, walletRuns, script, signer>>

\* A variable of process.env that is not set; a file that does not exist.
Unset == [set |-> FALSE, value |-> <<>>]

NoFile == [exists |-> FALSE, content |-> <<>>]

KEY_FILE == ".agent_key"

\* The inbox ids sampled: the bot's own, and two users'.
BotInboxId == <<"a", "b", "1">>

UserInboxIds == {<<"c", "d", "2">>, <<"e", "f", "3">>}

\* `${WALLET_STORAGE_DIR}/${userId}.json`
WalletPath(userId) ==
    CASE userId = <<"c", "d", "2">> -> ".data/wallet/cd2.json"
      [] userId = <<"e", "f", "3">> -> ".data/wallet/ef3.json"
      [] userId = BotInboxId -> ".data/wallet/ab1.json"
      [] OTHER -> ".data/wallet/AB1.json"

FilePaths == {KEY_FILE} \cup {WalletPath(u) : u \in UserInboxIds}

\* Messages handled before the stream stops yielding.
MaxMessages == 2

MessageIds == 1..MaxMessages

\* The listener before it is started; the handler of a message not yet taken.
NoListener == [variant |-> "none", pc |-> "NotStarted", taken |-> 0]

\* main of the end-to-end script before its first step: nothing submitted, no
\* receipt, no proposal id, the process running.
NoScript ==
    [pc |-> "writeContract", step |-> 1, submitted |-> <<>>, receipts |-> <<>>,
     proposalId |-> 0, failed |-> FALSE, exitCode |-> -1]

\* The signer-based provider with no action in flight.
NoSigner ==
    [pc |-> "Idle", name |-> "", args |-> <<>>, calls |-> <<>>, waits |-> 0,
     result |-> [success |-> FALSE, txHash |-> ""], error |-> ""]

NoHandler ==
    [pc |-> "none", conversation |-> FALSE, response |-> [text |-> "", a |-> "", b |-> ""],
     errors |-> {}, steps |-> <<>>]

EnvNames == {"AGENT_PRIVATE_KEY", "PRIVATE_KEY", "MEMBER1_KEY"}

NoArgs == [none |-> TRUE]

NoAnswer == [kind |-> "none", txHash |-> "", text |-> ""]

Pending == [how |-> "pending", success |-> FALSE, txHash |-> "", errorKind |-> "", message |-> "", step |-> ""]

\* A promise fulfilled with { success: true, txHash }.
Returned(txHash) ==
    [how |-> "returned", success |-> TRUE, txHash |-> txHash, errorKind |-> "", message |-> "", step |-> ""]

\* A promise rejected with an error object: its class name and its message;
\* step is the statement that threw (check, parse, encode, send).
Thrown(step, name, message) ==
    [how |-> "thrown", success |-> FALSE, txHash |-> "", errorKind |-> name, message |-> message, step |-> step]

\* The result { success: false, errorKind, message } of the dispatcher contract.
Failure(errorKind, message) ==
    [how |-> "returned", success |-> FALSE, txHash |-> "", errorKind |-> errorKind, message |-> message, step |-> "lookup"]

IdleCall ==
    [pc |-> "Idle", name |-> "", args |-> NoArgs, trace |-> <<>>, encodes |-> 0,
     sent |-> <<>>, answer |-> NoAnswer, outcome |-> Pending]

(***************************************************************************)
(* The synchronous part of a method: the statements it ran (check, parse,  *)
(* encode, send), the calls of encodeFunctionData, the requests handed to  *)
(* sendTransaction, and the error if one was thrown.                       *)
(***************************************************************************)
Run(trace, encodes, sends, outcome) ==
    [trace |-> trace, encodes |-> encodes, sends |-> sends, outcome |-> outcome]

\* Messages of the errors the libraries throw (the classes decide the claims).
LibraryMessage(name) ==
    CASE name = "InvalidDecimalNumberError" -> "Number is not a valid decimal number."
      [] name = "SyntaxError" -> "Cannot convert value to a BigInt"
      [] name = "RangeError" -> "The number cannot be converted to a BigInt because it is not an integer"
      [] name = "IntegerOutOfRangeError" -> "Number is not in safe 256-bit unsigned integer range"
      [] name = "InvalidAddressError" -> "Address is invalid."
      [] OTHER -> name

\* The request every method hands to walletProvider.sendTransaction.
TransactionRequest_toFromArgs(data) ==
    [to |-> IF data.functionName = "propose" THEN data.args[3] ELSE contractAddress,
     value |-> 0,
     data |-> [functionName |-> data.functionName, args |-> data.args]]

TransactionRequest(data) ==
    [to |-> contractAddress,
     value |-> 0,
     data |-> [functionName |-> data.functionName, args |-> data.args]]

\* The request handed to the submitter without the encoding being awaited.
EncodeAndSend_skipsEncoding(before, data) ==
    Run(Append(before, "send"), 0, <<TransactionRequest(data)>>, Pending)

\* From the encoding on: a failed encoding throws, a good one is sent.
EncodeAndSend(before, data) ==
    IF ~data.ok
    THEN Run(Append(before, "encode"), 1, <<>>, Thrown("encode", data.err, LibraryMessage(data.err)))
    ELSE Run(before \o <<"encode", "send">>, 1, <<TransactionRequest(data)>>, Pending)

CheckFailed(message) == Run(<<"check">>, 0, <<>>, Thrown("check", "Error", message))

(***************************************************************************)
(* propose                                                                 *)
(***************************************************************************)
\* The checks in schema order: token, amount, then recipient.
proposeChecks_schemaOrder(args) ==
    IF ~isAddress(args.token) THEN "Invalid token address"
    ELSE IF LeqZero(Number(args.amount)) THEN "Amount must be positive"
    ELSE IF ~isAddress(args.to) THEN "Invalid recipient address"
    ELSE ""

\* The checks without the one on the recipient.
proposeChecks_noRecipient(args) ==
    IF ~isAddress(args.token) THEN "Invalid token address"
    ELSE IF LeqZero(Number(args.amount)) THEN "Amount must be positive"
    ELSE ""

\* The message of the first check that fails, "" when all pass.
proposeChecks(args) ==
    IF ~isAddress(args.token) THEN "Invalid token address"
    ELSE IF ~isAddress(args.to) THEN "Invalid recipient address"
    ELSE IF LeqZero(Number(args.amount)) THEN "Amount must be positive"
    ELSE ""

\* A number amount scaled like a string: parseEther(String(amount)).
proposeParsedAmount_alwaysScaled(amount) ==
    IF amount.t = "string" THEN parseEther(amount.s)
    ELSE parseEther((IF amount.n.neg THEN <<"-">> ELSE <<>>) \o amount.n.int
                        \o (IF amount.n.frac = <<>> THEN <<>> ELSE <<".">> \o amount.n.frac))

\* typeof amount === "string" ? parseEther(amount) : BigInt(amount)
proposeParsedAmount(amount) ==
    IF amount.t = "string" THEN parseEther(amount.s) ELSE BigInt(amount)

propose(args) ==
    LET failed == proposeChecks(args)
        parsedAmount == proposeParsedAmount(args.amount)
    IN  IF failed # "" THEN CheckFailed(failed)
        ELSE IF ~parsedAmount.ok
        THEN Run(<<"check", "parse">>, 0, <<>>,
                 Thrown("parse", parsedAmount.err, LibraryMessage(parsedAmount.err)))
        ELSE EncodeAndSend(<<"check", "parse">>,
                 encodeFunctionData("propose",
                     <<encodeAddress(args.token), encodeNumber(parsedAmount),
                       encodeAddress(args.to), encodeString(args.reason)>>))

(***************************************************************************)
(* voteOnProposal, executeProposal                                         *)
(***************************************************************************)
\* The check without the test of the sign: !proposalId alone.
proposalIdInvalid_onlyFalsy(proposalId) == Falsy(proposalId)

\* !proposalId || Number(proposalId) < 0
proposalIdInvalid(proposalId) == Falsy(proposalId) \/ LtZero(Number(proposalId))

voteOnProposal(args) ==
    IF proposalIdInvalid(args.proposalId) THEN CheckFailed("Invalid proposalId")
    ELSE EncodeAndSend(<<"check">>,
             encodeFunctionData("vote",
                 <<encodeNumber(BigInt(args.proposalId)), encodeBool(args.support)>>))

executeProposal(args) ==
    IF proposalIdInvalid(args.proposalId) THEN CheckFailed("Invalid proposalId")
    ELSE EncodeAndSend(<<"check">>,
             encodeFunctionData("execute", <<encodeNumber(BigInt(args.proposalId))>>))

(***************************************************************************)
(* addMember, removeMember                                                 *)
(***************************************************************************)
\* addMember with the function name of its twin removeMember.
addMember_encodesRemove(args) ==
    IF ~isAddress(args.newMember) THEN CheckFailed("Invalid member address")
    ELSE EncodeAndSend(<<"check">>,
             encodeFunctionData("removeMember", <<encodeAddress(args.newMember)>>))

addMember(args) ==
    IF ~isAddress(args.newMember) THEN CheckFailed("Invalid member address")
    ELSE EncodeAndSend(<<"check">>,
             encodeFunctionData("addMember", <<encodeAddress(args.newMember)>>))

removeMember(args) ==
    IF ~isAddress(args.member) THEN CheckFailed("Invalid member address")
    ELSE EncodeAndSend(<<"check">>,
             encodeFunctionData("removeMember", <<encodeAddress(args.member)>>))

(***************************************************************************)
(* setMinVotes, setVotingPeriod                                            *)
(***************************************************************************)
\* setMinVotes rejecting negative values only: Number(minVotes) < 0.
setMinVotes_zeroAllowed(args) ==
    IF LtZero(Number(args.minVotes)) THEN CheckFailed("minVotes must be positive")
    ELSE EncodeAndSend(<<"check">>,
             encodeFunctionData("setMinVotes", <<encodeNumber(BigInt(args.minVotes))>>))

setMinVotes(args) ==
    IF LeqZero(Number(args.minVotes)) THEN CheckFailed("minVotes must be positive")
    ELSE EncodeAndSend(<<"check">>,
             encodeFunctionData("setMinVotes", <<encodeNumber(BigInt(args.minVotes))>>))

setVotingPeriod(args) ==
    IF LeqZero(Number(args.period)) THEN CheckFailed("period must be positive")
    ELSE EncodeAndSend(<<"check">>,
             encodeFunctionData("setVotingPeriod", <<encodeNumber(BigInt(args.period))>>))

(***************************************************************************)
(* Dispatch                                                                *)
(***************************************************************************)
\* The method @CreateAction registered under each name.
Invoke(name, args) ==
    CASE name = "propose" -> propose(args)
      [] name = "voteOnProposal" -> voteOnProposal(args)
      [] name = "executeProposal" -> executeProposal(args)
      [] name = "addMember" -> addMember(args)
      [] name = "removeMember" -> removeMember(args)
      [] name = "setMinVotes" -> setMinVotes(args)
      [] name = "setVotingPeriod" -> setVotingPeriod(args)

\* A lookup that falls back to the first action for a name it does not know.
lookup_fallback(name) == IF name \in registry THEN name ELSE "executeProposal"

\* lookup(name): the registered name, "" when the name is not registered.
lookup(name) == IF name \in registry THEN name ELSE ""

\* return { success: true, txHash } with a hash the method made up itself.
MethodReturn_fixedHash(txHash) == Returned("0x0")

\* return { success: true, txHash }
MethodReturn(txHash) == Returned(txHash)

Init ==
    /\ contractAddress \in VaultAddresses
    /\ registry = ActionNames
    /\ call = [c \in Calls |-> IdleCall]
    /\ nDispatched = 0
    /\ env = [n \in EnvNames |-> Unset]
    /\ disk = [f \in FilePaths |-> NoFile]
    /\ console = {}
    /\ keyRuns = <<>>
    /\ inbox = <<>>
    /\ listener = NoListener
    /\ handlers = [m \in MessageIds |-> NoHandler]
    /\ outbox = <<>>
    /\ walletRuns = <<>>
    /\ script = NoScript
    /\ signer = NoSigner

\* A dispatch that registers the name it was called with when it is unknown.
Dispatch_registersName(c, name, args) ==
    /\ call[c].pc = "Idle"
    /\ nDispatched < MaxDispatches
    /\ nDispatched' = nDispatched + 1
    /\ registry' = registry \cup {name}
    /\ call' = [call EXCEPT ![c] =
                  IF lookup(name) = ""
                  THEN [IdleCall EXCEPT !.pc = "Failed", !.name = name, !.args = args,
                           !.trace = <<"lookup">>,
                           !.outcome = Failure("UnknownAction", "Unknown action")]
                  ELSE LET run == Invoke(name, args)
                       IN  [pc |-> IF run.outcome.how = "thrown" THEN "Failed" ELSE "Submitting",
                            name |-> name, args |-> args,
                            trace |-> <<"lookup">> \o run.trace, encodes |-> run.encodes,
                            sent |-> run.sends, answer |-> NoAnswer, outcome |-> run.outcome]]
    /\ UNCHANGED contractAddress
    /\ UNCHANGED agentVars

\* dispatch(name, args) up to the await of sendTransaction: the lookup, then
\* the method's checks, parsing and encoding, then the hand-over of the request.
Dispatch(c, name, args) ==
    /\ call[c].pc = "Idle"
    /\ nDispatched < MaxDispatches
    /\ nDispatched' = nDispatched + 1
    /\ LET found == lookup(name)
       IN  IF found = ""
           THEN call' = [call EXCEPT ![c] =
                    [IdleCall EXCEPT !.pc = "Failed", !.name = name, !.args = args,
                        !.trace = <<"lookup">>,
                        !.outcome = Failure("UnknownAction", "Unknown action")]]
           ELSE LET run == Invoke(found, args)
                IN  call' = [call EXCEPT ![c] =
                        [pc |-> IF run.outcome.how = "thrown" THEN "Failed" ELSE "Submitting",
                         name |-> name, args |-> args,
                         trace |-> <<"lookup">> \o run.trace, encodes |-> run.encodes,
                         sent |-> run.sends, answer |-> NoAnswer, outcome |-> run.outcome]]
    /\ UNCHANGED <<contractAddress, registry>>
    /\ UNCHANGED agentVars

\* The submitter fails and the method sends the same request once more.
SubmitterReject_retry(c, text) ==
    /\ call[c].pc = "Submitting"
    /\ Len(call[c].sent) < 3
    /\ call' = [call EXCEPT ![c].sent = Append(@, @[1])]
    /\ UNCHANGED <<contractAddress, registry, nDispatched>>
    /\ UNCHANGED agentVars

\* The hash kept in a field of the provider that every call in flight reads:
\* the answer to one submission ends all of them.
SubmitterResolve_sharedResult(c, txHash) ==
    /\ call[c].pc = "Submitting"
    /\ call' = [d \in Calls |->
                  IF call[d].pc # "Submitting" THEN call[d]
                  ELSE [call[d] EXCEPT
                          !.pc = "Succeeded",
                          !.answer = IF d = c THEN [kind |-> "resolved", txHash |-> txHash, text |-> ""] ELSE @,
                          !.outcome = MethodReturn(txHash)]]
    /\ UNCHANGED <<contractAddress, registry, nDispatched>>
    /\ UNCHANGED agentVars

\* sendTransaction resolves with a hash: the method returns it.
SubmitterResolve(c, txHash) ==
    /\ call[c].pc = "Submitting"
    /\ call' = [call EXCEPT ![c].pc = "Succeeded",
                            ![c].answer = [kind |-> "resolved", txHash |-> txHash, text |-> ""],
                            ![c].outcome = MethodReturn(txHash)]
    /\ UNCHANGED <<contractAddress, registry, nDispatched>>
    /\ UNCHANGED agentVars

\* sendTransaction rejects: no method catches, the error leaves the method as it is.
SubmitterReject(c, text) ==
    /\ call[c].pc = "Submitting"
    /\ call' = [call EXCEPT ![c].pc = "Failed",
                            ![c].answer = [kind |-> "rejected", txHash |-> "", text |-> text],
                            ![c].outcome = Thrown("send", "Error", text)]
    /\ UNCHANGED <<contractAddress, registry, nDispatched>>
    /\ UNCHANGED agentVars

\* The caller has the result; the call and all it held are gone.
Discard(c) ==
    /\ call[c].pc \in {"Succeeded", "Failed"}
    /\ call' = [call EXCEPT ![c] = IdleCall]
    /\ UNCHANGED <<contractAddress, registry, nDispatched>>
    /\ UNCHANGED agentVars

Next ==
    \/ \E c \in SeqCalls, name \in NameInputs : \E args \in ArgsInputs(name) : Dispatch(c, name, args)
    \/ \E c \in SeqCalls, txHash \in TxHashes : SubmitterResolve(c, txHash)
    \/ \E c \in SeqCalls, text \in SubmitterErrors : SubmitterReject(c, text)
    \/ \E c \in SeqCalls : Discard(c)

Spec == Init /\ [][Next]_vars

(***************************************************************************)
(* Concurrent invocations: a method suspends at await sendTransaction, and *)
(* other invocations run until the submitter answers.  Two calls, with the *)
(* inputs cut down to one valid and one invalid value of each kind.        *)
(***************************************************************************)
ConcNames == {"propose", "voteOnProposal", "addMember", "createProposal"}

ConcArgsInputs(name) ==
    CASE name = "propose" ->
           [token : {zeroAddress},
            amount : {JsString(<<"0", ".", "1">>), JsNumber(Decimal(FALSE, <<"3">>, <<>>)),
                      JsNumber(Decimal(FALSE, <<"0">>, <<>>))},
            to : {LowerAddress, ShortAddress},
            reason : ReasonInputs]
      [] name = "voteOnProposal" ->
           [proposalId : {JsNumber(Decimal(FALSE, <<"1">>, <<>>)), JsString(<<"a", "b", "c">>)},
            support : BOOLEAN]
      [] name = "addMember" -> [newMember : {UsdcAddress, BadChecksumAddress}]
      [] OTHER -> [proposalId : {JsNumber(Decimal(FALSE, <<"1">>, <<>>))}]

NextConc ==
    \/ \E c \in Calls, name \in ConcNames : \E args \in ConcArgsInputs(name) : Dispatch(c, name, args)
    \/ \E c \in Calls, txHash \in TxHashes : SubmitterResolve(c, txHash)
    \/ \E c \in Calls, text \in SubmitterErrors : SubmitterReject(c, text)
    \/ \E c \in Calls : Discard(c)

SpecConc == Init /\ [][NextConc]_vars

TypeOK ==
    /\ contractAddress \in VaultAddresses
    /\ registry = ActionNames
    /\ nDispatched \in 0..MaxDispatches
    /\ \A c \in Calls : call[c].pc \in {"Idle", "Submitting", "Succeeded", "Failed"}

(***************************************************************************)
(* Vocabulary of the properties                                            *)
(***************************************************************************)
Started(c) == call[c].pc # "Idle"

Ended(c) == call[c].pc \in {"Succeeded", "Failed"}

\* Sampled addresses in the accepted format, and sampled malformed ones.
GoodAddresses == {zeroAddress, LowerAddress, UsdcAddress}

BadAddresses == {BadChecksumAddress, ShortAddress}

\* Sampled positive amounts: integer numbers and decimal strings.
PositiveAmounts ==
    { JsNumber(Decimal(FALSE, <<"1">>, <<>>)), JsNumber(Decimal(FALSE, <<"3">>, <<>>)),
      JsString(<<"0", ".", "1">>), JsString(<<"1">>), JsString(<<"1", ".", "5">>),
      JsString(OneWeiString) }

\* Sampled positive integers, as a number and as a string.
PositiveIntegers ==
    { JsNumber(Decimal(FALSE, <<"1">>, <<>>)), JsNumber(Decimal(FALSE, <<"3">>, <<>>)),
      JsString(<<"1">>) }

\* Sampled zero and negative values, as a number and as a numeric string.
NonPositiveValues ==
    { JsNumber(Decimal(TRUE, <<"1">>, <<>>)), JsNumber(Decimal(FALSE, <<"0">>, <<>>)),
      JsString(<<"0">>), JsString(<<"-", "1">>) }

\* Args that are valid for the action by the types of its schema.
ValidArgs(name, args) ==
    CASE name = "propose" ->
           args.token \in GoodAddresses /\ args.to \in GoodAddresses /\ args.amount \in PositiveAmounts
      [] name \in {"voteOnProposal", "executeProposal"} -> args.proposalId \in PositiveIntegers
      [] name = "addMember" -> args.newMember \in GoodAddresses
      [] name = "removeMember" -> args.member \in GoodAddresses
      [] name = "setMinVotes" -> args.minVotes \in PositiveIntegers
      [] name = "setVotingPeriod" -> args.period \in PositiveIntegers
      [] OTHER -> FALSE

\* The amount-like or uint-like value of the action's args.
UintField(name, args) ==
    CASE name = "propose" -> args.amount
      [] name \in {"voteOnProposal", "executeProposal"} -> args.proposalId
      [] name = "setMinVotes" -> args.minVotes
      [] name = "setVotingPeriod" -> args.period

UintActions == {"propose", "voteOnProposal", "executeProposal", "setMinVotes", "setVotingPeriod"}

\* The address-typed values of the action's args.
AddressFields(name, args) ==
    CASE name = "propose" -> {args.token, args.to}
      [] name = "addMember" -> {args.newMember}
      [] name = "removeMember" -> {args.member}

AddressActions == {"propose", "addMember", "removeMember"}

(***************************************************************************)
(* Properties                                                              *)
(***************************************************************************)
\* C1: for every registered action and valid args, the dispatch hands exactly
\* one request to the submitter, and when the submitter answers with a hash the
\* dispatch returns { success: true, txHash } with that very hash.
C1_ValidDispatchSubmitsOnce ==
    \A c \in Calls :
        (Started(c) /\ call[c].name \in ActionNames /\ ValidArgs(call[c].name, call[c].args)) =>
            /\ Len(call[c].sent) = 1
            /\ call[c].pc = "Failed" => call[c].answer.kind = "rejected"
            /\ call[c].answer.kind = "resolved" =>
                 /\ call[c].pc = "Succeeded"
                 /\ call[c].outcome.how = "returned"
                 /\ call[c].outcome.success
                 /\ call[c].outcome.txHash = call[c].answer.txHash

C1_Witness ==
    \E c \in Calls :
        /\ call[c].pc = "Succeeded"
        /\ call[c].name = "propose"
        /\ ValidArgs(call[c].name, call[c].args)
        /\ call[c].outcome.txHash = call[c].answer.txHash

\* C2: whatever the outcome of a dispatch, the submitter is invoked at most
\* once in it; a submitter failure is not followed by a second submission.
C2_AtMostOneSubmission == \A c \in Calls : Len(call[c].sent) <= 1

C2_Witness ==
    \E c \in Calls :
        call[c].pc = "Failed" /\ call[c].answer.kind = "rejected" /\ Len(call[c].sent) = 1

\* C3: every request handed to the submitter is addressed to the configured
\* vault address and carries value zero, whatever addresses the args hold.
C3_FixedTargetZeroValue ==
    \A c \in Calls : \A i \in 1..Len(call[c].sent) :
        /\ call[c].sent[i].to = contractAddress
        /\ call[c].sent[i].to \in VaultAddresses
        /\ call[c].sent[i].value = 0

C3_Witness ==
    \E c \in Calls :
        /\ call[c].name = "propose"
        /\ Len(call[c].sent) = 1
        /\ call[c].args.to = LowerAddress
        /\ call[c].args.to # contractAddress

\* C4: for propose, addMember and removeMember, when an address-typed field
\* fails the address validation the dispatch fails and neither the encoder nor
\* the submitter is invoked.
C4_InvalidAddressStopsBeforeEncoding ==
    \A c \in Calls :
        (/\ Started(c)
         /\ call[c].name \in AddressActions
         /\ AddressFields(call[c].name, call[c].args) \cap BadAddresses # {}) =>
            /\ call[c].pc = "Failed"
            /\ call[c].encodes = 0
            /\ call[c].sent = <<>>
            /\ call[c].trace = <<"lookup", "check">>

C4_Witness ==
    \E c \in Calls :
        /\ call[c].name = "propose"
        /\ call[c].args.token \in GoodAddresses
        /\ call[c].args.to \in BadAddresses
        /\ call[c].args.amount \in PositiveAmounts
        /\ call[c].pc = "Failed"

\* C5: for every amount-like or uint-like field, a zero or negative value,
\* given as a number or as a numeric string, makes the dispatch fail with a
\* rejection of the checks, and nothing is submitted.
C5_NonPositiveRejected ==
    \A c \in Calls :
        (/\ Started(c)
         /\ call[c].name \in UintActions
         /\ UintField(call[c].name, call[c].args) \in NonPositiveValues) =>
            /\ call[c].pc = "Failed"
            /\ call[c].outcome.step = "check"
            /\ call[c].sent = <<>>

\* C6: a dispatch with a name that is not registered fails with UnknownAction
\* before any check, parsing, encoding or submission.
C6_UnknownActionNoSideEffects ==
    \A c \in Calls :
        (Started(c) /\ call[c].name \notin ActionNames) =>
            /\ call[c].pc = "Failed"
            /\ call[c].outcome.errorKind = "UnknownAction"
            /\ ~call[c].outcome.success
            /\ call[c].trace = <<"lookup">>
            /\ call[c].encodes = 0
            /\ call[c].sent = <<>>

C6_Witness ==
    \E c \in Calls :
        /\ call[c].name = "createProposal"
        /\ call[c].pc = "Failed"
        /\ call[c].outcome.errorKind = "UnknownAction"

\* C7: when the submitter fails, the dispatch returns { success: false,
\* errorKind: "SubmissionError", message } and the message holds none of the
\* submitter's error text, so it is the same for every such text.
C7_SubmitterFailureSanitized ==
    \A c \in Calls :
        call[c].answer.kind = "rejected" =>
            /\ call[c].outcome.how = "returned"
            /\ ~call[c].outcome.success
            /\ call[c].outcome.errorKind = "SubmissionError"
            /\ call[c].outcome.message \notin SubmitterErrors

\* C8: every dispatch ends by returning { success: true, txHash } or
\* { success: false, errorKind, message } with one of the four error kinds;
\* none ends by raising an exception.
C8_UniformResultShape ==
    \A c \in Calls :
        Ended(c) =>
            /\ call[c].outcome.how = "returned"
            /\ \/ call[c].outcome.success
               \/ call[c].outcome.errorKind \in
                    {"UnknownAction", "ValidationError", "EncodingError", "SubmissionError"}

\* C9: args that pass the checks of the action are encoded without failure,
\* so a dispatch that passes its checks always reaches the submission.
C9_CheckedArgsEncode ==
    \A c \in Calls :
        (Started(c) /\ call[c].name \in ActionNames /\ call[c].outcome.step # "check") =>
            /\ call[c].outcome.step \notin {"parse", "encode"}
            /\ Len(call[c].sent) = 1

\* The fields of propose that are invalid: a malformed address, an amount
\* that is not a positive integer number or decimal string.
ProposeInvalidFields(args) ==
    {f \in {"token", "amount", "to"} :
        \/ f = "token" /\ args.token \in BadAddresses
        \/ f = "amount" /\ args.amount \notin PositiveAmounts
        \/ f = "to" /\ args.to \in BadAddresses}

FieldMessage(f) ==
    CASE f = "token" -> "Invalid token address"
      [] f = "amount" -> "Amount must be positive"
      [] f = "to" -> "Invalid recipient address"

FirstOf(order, S) ==
    order[CHOOSE i \in 1..Len(order) : order[i] \in S /\ \A j \in 1..(i - 1) : order[j] \notin S]

\* A propose with several invalid fields fails at the checks on the first
\* invalid field of `order`, reporting it, with nothing encoded or submitted.
FailsOnFirstInvalid(order) ==
    \A c \in Calls :
        (/\ Started(c)
         /\ call[c].name = "propose"
         /\ Cardinality(ProposeInvalidFields(call[c].args)) >= 2) =>
            /\ call[c].pc = "Failed"
            /\ call[c].outcome.message = FieldMessage(FirstOf(order, ProposeInvalidFields(call[c].args)))
            /\ call[c].trace = <<"lookup", "check">>
            /\ call[c].encodes = 0
            /\ call[c].sent = <<>>

\* C10 as stated: with several invalid fields the dispatch fails on the first
\* invalid field in schema order (token, amount, to, reason) and reports it.
C10_FirstInvalidInSchemaOrder == FailsOnFirstInvalid(<<"token", "amount", "to">>)

\* C10 as amended: with several invalid fields the dispatch fails on the first
\* invalid field in the order the method checks them (token, to, amount; the
\* reason is not checked) and reports that field; no later field is
\* checked, nothing is encoded and nothing is submitted.
C10_FirstInvalidInCheckOrder == FailsOnFirstInvalid(<<"token", "to", "amount">>)

C10_Witness ==
    \E c \in Calls :
        /\ call[c].name = "propose"
        /\ call[c].args.token \in GoodAddresses
        /\ call[c].args.amount \in NonPositiveValues
        /\ call[c].args.to \in BadAddresses
        /\ call[c].pc = "Failed"
        /\ call[c].outcome.message = "Invalid recipient address"

\* Sampled strings that are no number: Number() gives NaN for them.
NonNumericStrings == {JsString(<<"a", "b", "c">>), JsString(<<".">>)}

\* The actions with an amount in their args: propose, and the two settings.
AmountActions == {"propose", "setMinVotes", "setVotingPeriod"}

\* C11: a dispatch with a malformed address, or with an amount that is zero,
\* negative or not a number, fails at the checks of the method with the error
\* of the offending field; it never fails at the parsing, the encoding or a
\* later step, and it submits nothing.
C11_MalformedInputFailsAtChecks ==
    \A c \in Calls :
        (/\ Started(c)
         /\ call[c].name \in ActionNames
         /\ \/ /\ call[c].name \in AddressActions
               /\ AddressFields(call[c].name, call[c].args) \cap BadAddresses # {}
            \/ /\ call[c].name \in AmountActions
               /\ UintField(call[c].name, call[c].args) \in NonPositiveValues \cup NonNumericStrings) =>
            /\ call[c].pc = "Failed"
            /\ call[c].outcome.step = "check"
            /\ call[c].encodes = 0
            /\ call[c].sent = <<>>

\* The decimal strings sampled as amounts, and s x 10^18 for each, digit by digit.
DecimalStrings == {<<"0", ".", "1">>, <<"1">>, <<"1", ".", "5">>, OneWeiString}

TimesTenToThe18(s) ==
    CASE s = <<"0", ".", "1">> ->
           <<"1", "0","0","0","0","0","0","0","0","0","0","0","0","0","0","0","0","0">>
      [] s = <<"1">> ->
           <<"1", "0","0","0","0","0","0","0","0","0","0","0","0","0","0","0","0","0","0">>
      [] s = <<"1", ".", "5">> ->
           <<"1", "5", "0","0","0","0","0","0","0","0","0","0","0","0","0","0","0","0","0">>
      [] s = OneWeiString -> <<"1">>

\* C12: a propose with valid addresses and a decimal-string amount s hands the
\* submitter one request whose encoded amount is the integer s x 10^18, digit
\* for digit ("0.1" gives 100000000000000000), with value 0 and addressed to
\* the configured vault.
C12_DecimalStringScaledExactly ==
    \A c \in Calls :
        (/\ Started(c)
         /\ call[c].name = "propose"
         /\ call[c].args.token \in GoodAddresses
         /\ call[c].args.to \in GoodAddresses
         /\ call[c].args.amount.t = "string"
         /\ call[c].args.amount.s \in DecimalStrings) =>
            /\ Len(call[c].sent) = 1
            /\ call[c].sent[1].data.functionName = "propose"
            /\ call[c].sent[1].data.args[2] = TimesTenToThe18(call[c].args.amount.s)
            /\ call[c].sent[1].value = 0
            /\ call[c].sent[1].to = contractAddress

C12_Witness ==
    \E c \in Calls :
        /\ call[c].name = "propose"
        /\ call[c].args.token = zeroAddress
        /\ call[c].args.amount = JsString(<<"0", ".", "1">>)
        /\ Len(call[c].sent) = 1
        /\ Len(call[c].sent[1].data.args[2]) = 18
        /\ call[c].sent[1].data.args[2][1] = "1"
        /\ call[c].pc = "Succeeded"

\* The integers sampled as amounts, as numbers: 1 and 3.
IntegerNumbers ==
    {JsNumber(Decimal(FALSE, <<"1">>, <<>>)), JsNumber(Decimal(FALSE, <<"3">>, <<>>))}

\* C13: a propose with valid addresses and a positive integer number n as
\* amount encodes exactly n, unscaled, while the same integer given as the
\* string "1" encodes 1 x 10^18: the type of the amount alone selects the
\* coercion.
C13_NumberCastStringScaled ==
    \A c \in Calls :
        (/\ Started(c)
         /\ call[c].name = "propose"
         /\ call[c].args.token \in GoodAddresses
         /\ call[c].args.to \in GoodAddresses) =>
            /\ call[c].args.amount \in IntegerNumbers =>
                 /\ Len(call[c].sent) = 1
                 /\ call[c].sent[1].data.args[2] = call[c].args.amount.n.int
            /\ call[c].args.amount = JsString(<<"1">>) =>
                 /\ Len(call[c].sent) = 1
                 /\ call[c].sent[1].data.args[2] = TimesTenToThe18(<<"1">>)
                 /\ call[c].sent[1].data.args[2] # <<"1">>

C13_Witness ==
    \E c \in Calls :
        /\ call[c].name = "propose"
        /\ call[c].args.amount = JsNumber(Decimal(FALSE, <<"3">>, <<>>))
        /\ Len(call[c].sent) = 1
        /\ call[c].sent[1].data.args[2] = <<"3">>
        /\ call[c].pc = "Succeeded"

\* Sampled negative ids: the number -1 and the string "-1".
NegativeValues == {JsNumber(Decimal(TRUE, <<"1">>, <<>>)), JsString(<<"-", "1">>)}

\* The decimal digits of a sampled positive integer.
DigitsOf(v) == IF v.t = "number" THEN v.n.int ELSE v.s

\* C14: voteOnProposal and executeProposal with a negative proposalId, number
\* or numeric string, fail at the check with "Invalid proposalId" and hand
\* nothing to the encoder or the submitter; with a valid proposalId the
\* request carries that very id as the first argument of vote or execute.
C14_NegativeIdRejectedValidIdForwarded ==
    \A c \in Calls :
        (Started(c) /\ call[c].name \in {"voteOnProposal", "executeProposal"}) =>
            /\ call[c].args.proposalId \in NegativeValues =>
                 /\ call[c].pc = "Failed"
                 /\ call[c].outcome.step = "check"
                 /\ call[c].outcome.message = "Invalid proposalId"
                 /\ call[c].encodes = 0
                 /\ call[c].sent = <<>>
            /\ call[c].args.proposalId \in PositiveIntegers =>
                 /\ Len(call[c].sent) = 1
                 /\ call[c].sent[1].data.functionName =
                      (IF call[c].name = "voteOnProposal" THEN "vote" ELSE "execute")
                 /\ call[c].sent[1].data.args[1] = DigitsOf(call[c].args.proposalId)

C14_Witness ==
    \E c \in Calls :
        /\ call[c].name = "voteOnProposal"
        /\ call[c].args.proposalId = JsString(<<"-", "1">>)
        /\ call[c].pc = "Failed"
        /\ call[c].outcome.message = "Invalid proposalId"

\* C15: setMinVotes and setVotingPeriod hand a transaction to the submitter if
\* and only if their value is a strictly positive integer (a number or a
\* string of digits): zero and negative values fail at the check and submit
\* nothing, a positive value such as 3 submits exactly one transaction and
\* fails only if the submitter does.
C15_SubmitsIffPositive ==
    \A c \in Calls :
        (Started(c) /\ call[c].name \in {"setMinVotes", "setVotingPeriod"}) =>
            /\ call[c].sent # <<>> <=> UintField(call[c].name, call[c].args) \in PositiveIntegers
            /\ Len(call[c].sent) <= 1
            /\ UintField(call[c].name, call[c].args) \in NonPositiveValues =>
                 /\ call[c].pc = "Failed"
                 /\ call[c].outcome.step = "check"
                 /\ call[c].outcome.message \in {"minVotes must be positive", "period must be positive"}
            /\ UintField(call[c].name, call[c].args) \in PositiveIntegers =>
                 (call[c].pc = "Failed" => call[c].answer.kind = "rejected")

C15_Witness ==
    \E c \in Calls :
        /\ call[c].name = "setMinVotes"
        /\ call[c].args.minVotes = JsNumber(Decimal(FALSE, <<"3">>, <<>>))
        /\ Len(call[c].sent) = 1
        /\ call[c].sent[1].data.args = << <<"3">> >>
        /\ call[c].pc = "Succeeded"

\* The phase each statement of a dispatch belongs to: the lookup leaves Idle,
\* the checks and the parsing of the amount validate, then encoding, sending.
PhaseOf(step) ==
    CASE step = "lookup" -> "Idle"
      [] step \in {"check", "parse"} -> "Validating"
      [] step = "encode" -> "Encoding"
      [] step = "send" -> "Submitting"

PhaseOrder == <<"Idle", "Validating", "Encoding", "Submitting">>

RECURSIVE Collapse(_)
Collapse(s) ==
    IF Len(s) <= 1 THEN s
    ELSE IF s[1] = s[2] THEN Collapse(Tail(s))
    ELSE <<s[1]>> \o Collapse(Tail(s))

\* The phases call c has entered, in the order it entered them.
Phases(c) == Collapse([i \in 1..Len(call[c].trace) |-> PhaseOf(call[c].trace[i])])

IsPrefix(p, s) == Len(p) <= Len(s) /\ SubSeq(s, 1, Len(p)) = p

PhasesInOrder ==
    \A c \in Calls :
        /\ IsPrefix(Phases(c), PhaseOrder)
        /\ Started(c) <=> Phases(c) # <<>>
        /\ call[c].pc \in {"Submitting", "Succeeded"} =>
             /\ Phases(c) = PhaseOrder
             /\ call[c].encodes = 1
             /\ Len(call[c].sent) = 1
        /\ call[c].sent # <<>> => Phases(c) = PhaseOrder
        /\ call[c].pc = "Submitting" => call[c].outcome = Pending
        /\ call[c].pc = "Succeeded" => call[c].outcome.how = "returned" /\ call[c].outcome.success
        /\ call[c].pc = "Failed" =>
             /\ ~call[c].outcome.success
             /\ PhaseOf(call[c].outcome.step) = Phases(c)[Len(Phases(c))]

\* An ended call enters no further phase: it stays as it is until it is gone,
\* and a call in flight ends once, as Succeeded or as Failed.
NoPhaseAfterEnd ==
    \A c \in Calls :
        /\ Ended(c) => (call'[c] = call[c] \/ call'[c] = IdleCall)
        /\ call[c].pc = "Submitting" =>
             \/ call'[c] = call[c]
             \/ call'[c].pc \in {"Succeeded", "Failed"} /\ call'[c].trace = call[c].trace
                  /\ call'[c].sent = call[c].sent

\* C16: every dispatch goes through Idle, Validating, Encoding and Submitting
\* in that order, skipping none, and ends as Succeeded or as Failed; a request
\* is handed to the submitter only after the validation and the encoding of
\* the same call completed, and an ended call enters no further phase.
C16_PhaseOrder == []PhasesInOrder /\ [][NoPhaseAfterEnd]_vars

C16_Witness ==
    \E c \in Calls :
        /\ call[c].name = "propose"
        /\ call[c].pc = "Succeeded"
        /\ call[c].trace = <<"lookup", "check", "parse", "encode", "send">>
        /\ Phases(c) = PhaseOrder

\* C17: with several calls in flight at once, each call hands the submitter
\* the request its method builds from its own name and args, and ends with the
\* result that follows from the submitter's answer to its own request: two
\* calls with the same name, args and answer are equal in everything, whatever
\* the other calls did in between.
C17_CallsIndependent ==
    /\ \A c \in Calls :
         (Started(c) /\ call[c].name \in ActionNames) =>
            LET alone == Invoke(call[c].name, call[c].args)
            IN  /\ call[c].sent = alone.sends
                /\ call[c].trace = <<"lookup">> \o alone.trace
                /\ call[c].answer.kind = "none" =>
                     /\ call[c].outcome = alone.outcome
                     /\ call[c].pc = IF alone.sends = <<>> THEN "Failed" ELSE "Submitting"
                /\ call[c].answer.kind = "resolved" =>
                     /\ Len(call[c].sent) = 1
                     /\ call[c].pc = "Succeeded"
                     /\ call[c].outcome = Returned(call[c].answer.txHash)
                /\ call[c].answer.kind = "rejected" =>
                     /\ Len(call[c].sent) = 1
                     /\ call[c].pc = "Failed"
                     /\ call[c].outcome = Thrown("send", "Error", call[c].answer.text)
    /\ \A c, d \in Calls :
         (/\ call[c].name = call[d].name
          /\ call[c].args = call[d].args
          /\ call[c].answer = call[d].answer) => call[c] = call[d]

C17_Witness ==
    /\ call["c1"].pc = "Submitting"
    /\ call["c2"].pc = "Submitting"
    /\ call["c1"].name = "propose"
    /\ call["c2"].name = "voteOnProposal"
    /\ call["c1"].sent # call["c2"].sent

\* The contract function each action encodes a call of.
ContractFunction(name) ==
    CASE name = "propose" -> "propose"
      [] name = "voteOnProposal" -> "vote"
      [] name = "executeProposal" -> "execute"
      [] name = "addMember" -> "addMember"
      [] name = "removeMember" -> "removeMember"
      [] name = "setMinVotes" -> "setMinVotes"
      [] name = "setVotingPeriod" -> "setVotingPeriod"

\* The amount of a submitted propose as an integer: a number as it is, a
\* decimal string times 10^18 (the string "." counts as zero).
AmountWord(v) ==
    IF v.t = "number" THEN v.n.int
    ELSE IF v.s \in DecimalStrings THEN TimesTenToThe18(v.s)
    ELSE <<"0">>

\* The args of a submitted call as the words of its data, in the order of
\* the contract function's inputs; hex digits of addresses in lower case.
ExpectedWords(name, args) ==
    CASE name = "propose" ->
           <<toLowerCase(args.token), AmountWord(args.amount), toLowerCase(args.to), args.reason>>
      [] name = "voteOnProposal" ->
           <<DigitsOf(args.proposalId),
             IF args.support THEN <<"t", "r", "u", "e">> ELSE <<"f", "a", "l", "s", "e">> >>
      [] name = "executeProposal" -> <<DigitsOf(args.proposalId)>>
      [] name = "addMember" -> <<toLowerCase(args.newMember)>>
      [] name = "removeMember" -> <<toLowerCase(args.member)>>
      [] name = "setMinVotes" -> <<DigitsOf(args.minVotes)>>
      [] name = "setVotingPeriod" -> <<DigitsOf(args.period)>>

\* C18: the data of every request handed to the submitter names the one
\* contract function of the call's action and holds exactly the call's args,
\* each encoded by its type, in the declared order; no value of the args
\* changes the function or adds a word.
C18_DataFromOwnEncoder ==
    \A c \in Calls : \A i \in 1..Len(call[c].sent) :
        /\ call[c].name \in ActionNames
        /\ call[c].sent[i].data.functionName = ContractFunction(call[c].name)
        /\ call[c].sent[i].data.args = ExpectedWords(call[c].name, call[c].args)
        /\ DOMAIN call[c].sent[i] = {"to", "value", "data"}

C18_Witness ==
    \E c \in Calls :
        /\ call[c].name = "voteOnProposal"
        /\ call[c].args.support
        /\ Len(call[c].sent) = 1
        /\ call[c].sent[1].data = [functionName |-> "vote", args |-> << <<"1">>, <<"t", "r", "u", "e">> >>]

\* C19: the registry holds the seven names the class registers when it is
\* constructed, and no dispatch, successful or failed, known or unknown,
\* adds or removes one: every step leaves the registry as it was.
C19_RegistryUnchanged == [](registry = ActionNames) /\ [][registry' = registry]_vars

C19_Witness ==
    /\ registry = ActionNames
    /\ nDispatched = MaxDispatches
    /\ \E c \in Calls : call[c].pc = "Failed" /\ call[c].name \in UnknownNames

\* The addresses in the data of the request call c handed to the submitter.
AddressWords(c) ==
    IF call[c].sent = <<>> \/ call[c].name \notin AddressActions THEN {}
    ELSE IF call[c].name = "propose"
    THEN {call[c].sent[1].data.args[1], call[c].sent[1].data.args[3]}
    ELSE {call[c].sent[1].data.args[1]}

MaxKeyRuns == 3

\* Private keys: set in the environment, stored in the key file, drawn at
\* random, and the two defaults of the test script.
EnvKey == <<"0", "x", "e", "1">>

FileKey == <<"0", "x", "f", "2">>

RandomKeys == {<<"0", "x", "a", "3">>, <<"0", "x", "b", "4">>}

AnvilOwnerKey == <<"0", "x", "5", "9">>

AnvilMemberKey == <<"0", "x", "8", "b">>

PrivateKeys == {EnvKey, FileKey, AnvilOwnerKey, AnvilMemberKey} \cup RandomKeys

EnvValue(v) == [set |-> TRUE, value |-> v]

File(content) == [exists |-> TRUE, content |-> content]

\* String.prototype.trim for strings with spaces and line ends.
Whitespace == {" ", "\n"}

RECURSIVE trimStart(_)
trimStart(s) == IF Len(s) > 0 /\ s[1] \in Whitespace THEN trimStart(Tail(s)) ELSE s

RECURSIVE trimEnd(_)
trimEnd(s) ==
    IF Len(s) > 0 /\ s[Len(s)] \in Whitespace THEN trimEnd(SubSeq(s, 1, Len(s) - 1)) ELSE s

trim(s) == trimEnd(trimStart(s))

\* The address of each key: derived one way, it does not show the key.
AddressOf(key) ==
    CASE key = EnvKey -> <<"0", "x", "7", "1">>
      [] key = FileKey -> <<"0", "x", "7", "2">>
      [] key = AnvilOwnerKey -> <<"0", "x", "7", "3">>
      [] key = AnvilMemberKey -> <<"0", "x", "7", "4">>
      [] OTHER -> <<"0", "x", "7", "5">>

\* new Wallet(key): the wallet of a hex key, an error for any other string.
Wallet(key) ==
    IF Len(key) > 2 /\ key[1] = "0" /\ key[2] = "x" /\ \A i \in 3..Len(key) : key[i] \in HexChars
    THEN [ok |-> TRUE, privateKey |-> key, address |-> AddressOf(key), message |-> <<>>]
    ELSE [ok |-> FALSE, privateKey |-> <<>>, address |-> <<>>,
          message |-> <<"invalid private key">>]

\* fs.writeFileSync or fs.readFileSync throwing.
FsError ==
    [ok |-> FALSE, privateKey |-> <<>>, address |-> <<>>, message |-> <<"EACCES: permission denied">>]

\* `a || b` for strings of process.env.
OrElse(a, b) == IF a.set /\ a.value # <<>> THEN a.value ELSE b

\* One line written by console.log or console.error: its text and the value
\* put into it.
Line(label, value) == [label |-> label, value |-> value]

\* loadOrCreateKeys looking at the key file before the environment.
loadOrCreateKeys_fileFirst(random, fsOk) ==
    LET envKey == env["AGENT_PRIVATE_KEY"]
    IN  IF disk[KEY_FILE].exists
        THEN [wallet |-> IF fsOk THEN Wallet(trim(disk[KEY_FILE].content)) ELSE FsError,
              disk |-> disk]
        ELSE IF envKey.set /\ envKey.value # <<>>
        THEN [wallet |-> Wallet(envKey.value), disk |-> disk]
        ELSE IF ~fsOk THEN [wallet |-> FsError, disk |-> disk]
        ELSE [wallet |-> Wallet(random), disk |-> [disk EXCEPT ![KEY_FILE] = File(random)]]

\* loadOrCreateKeys(): the wallet it returns (or the error it throws) and the
\* disk it leaves; `random` is the key createRandom draws, `fsOk` whether the
\* file operation it needs succeeds.
loadOrCreateKeys(random, fsOk) ==
    LET envKey == env["AGENT_PRIVATE_KEY"]
    IN  IF envKey.set /\ envKey.value # <<>>
        THEN [wallet |-> Wallet(envKey.value), disk |-> disk]
        ELSE IF disk[KEY_FILE].exists
        THEN [wallet |-> IF fsOk THEN Wallet(trim(disk[KEY_FILE].content)) ELSE FsError,
              disk |-> disk]
        ELSE IF ~fsOk THEN [wallet |-> FsError, disk |-> disk]
        ELSE [wallet |-> Wallet(random), disk |-> [disk EXCEPT ![KEY_FILE] = File(random)]]

\* The values of the environment and the key files a run can start from.
EnvInputs ==
    { e \in [EnvNames -> {Unset, EnvValue(<<>>), EnvValue(EnvKey)}] :
        e["PRIVATE_KEY"] # EnvValue(<<>>) /\ e["MEMBER1_KEY"] = Unset }

KeyFileInputs == {NoFile, File(FileKey), File(Append(FileKey, "\n")), File(<<>>)}

InitKeys ==
    /\ contractAddress = VaultAddressA
    /\ registry = ActionNames
    /\ call = [c \in Calls |-> IdleCall]
    /\ nDispatched = 0
    /\ env \in EnvInputs
    /\ disk \in {[f \in FilePaths |-> IF f = KEY_FILE THEN k ELSE NoFile] : k \in KeyFileInputs}
    /\ console = {}
    /\ keyRuns = <<>>
    /\ inbox = <<>>
    /\ listener = NoListener
    /\ handlers = [m \in MessageIds |-> NoHandler]
    /\ outbox = <<>>
    /\ walletRuns = <<>>
    /\ script = NoScript
    /\ signer = NoSigner

\* The entry point: loadOrCreateKeys, then startXMTPClient with the wallet;
\* it logs the address it connected as, or the message of the error.
IndexMain(random, fsOk, xmtpOk) ==
    /\ Len(keyRuns) < MaxKeyRuns
    /\ LET loaded == loadOrCreateKeys(random, fsOk)
       IN  /\ disk' = loaded.disk
           /\ keyRuns' = Append(keyRuns, loaded.wallet)
           /\ console' = console \cup
                 (IF ~loaded.wallet.ok
                  THEN {Line("Agent failed to start:", loaded.wallet.message)}
                  ELSE IF ~xmtpOk
                  THEN {Line("Agent failed to start:", <<"XMTP connection failed">>)}
                  ELSE {Line("Connected to XMTP as:", loaded.wallet.address),
                        Line("SquadSafe agent is running and listening for messages.", <<>>)})
    /\ UNCHANGED <<providerVars, toolVars, chatVars, env>>

\* The end-to-end test script, up to the lines that set up its two accounts.
E2eTest ==
    LET OWNER_KEY == OrElse(env["PRIVATE_KEY"], AnvilOwnerKey)
        MEMBER1_KEY == OrElse(env["MEMBER1_KEY"], AnvilMemberKey)
    IN  /\ console' = console \cup
              {Line("OWNER_KEY:", OWNER_KEY), Line("MEMBER1_KEY:", MEMBER1_KEY),
               Line("Owner:", AddressOf(OWNER_KEY)), Line("Member1:", AddressOf(MEMBER1_KEY))}
        /\ UNCHANGED <<providerVars, toolVars, chatVars, env, disk, keyRuns>>

\* The key generator script: it draws two keys and prints them.
generateRandomKeys(walletKey, encryptionKey) ==
    /\ console' = console \cup
          {Line("WALLET_KEY=", walletKey), Line("ENCRYPTION_KEY=", encryptionKey)}
    /\ UNCHANGED <<providerVars, toolVars, chatVars, env, disk, keyRuns>>

NextKeys ==
    \/ \E random \in RandomKeys, fsOk \in BOOLEAN, xmtpOk \in BOOLEAN : IndexMain(random, fsOk, xmtpOk)
    \/ E2eTest
    \/ \E walletKey \in RandomKeys, encryptionKey \in RandomKeys :
          generateRandomKeys(walletKey, encryptionKey)

SpecKeys == InitKeys /\ [][NextKeys]_vars

\* C21: nothing that the entry point, the key manager, the key generator or
\* the test script writes to the console holds the value of a private key.
C21_NoKeyOnConsole == \A l \in console : l.value \notin PrivateKeys

\* --------------------------------------------------------------------------
\* The chat agents: startMessageListener and handleMessage, in the agent that
\* answers with a language model ("llm") and in the agent that answers
\* structured commands ("structured").
\* --------------------------------------------------------------------------

Variants == {"llm", "structured"}

\* The bot's inbox id as a sender writes it in upper case.
BotInboxIdUpper == <<"A", "B", "1">>

\* message.conversationId: one id getConversationById resolves, one it does not.
KnownConversation == "conv-1"

UnknownConversation == "conv-9"

\* message.content: text that is not JSON, the commands, and JSON values that
\* are not commands.
NotJson == "hello"

TruncatedJson == "{\"type\":"

ProposalJson == "{\"type\":\"proposal\",\"content\":\"lunch\"}"

VoteYesJson == "{\"type\":\"vote\",\"vote\":true,\"proposalId\":\"7\"}"

VoteNoJson == "{\"type\":\"vote\",\"vote\":false,\"proposalId\":\"7\"}"

ExecutionJson == "{\"type\":\"execution\",\"proposalId\":\"7\"}"

InfoJson == "{\"type\":\"info\"}"

UnknownTypeJson == "{\"type\":\"transfer\"}"

EmptyObjectJson == "{}"

NullJson == "null"

NumberJson == "7"

Contents ==
    {NotJson, TruncatedJson, ProposalJson, VoteYesJson, VoteNoJson, ExecutionJson, InfoJson,
     UnknownTypeJson, EmptyObjectJson, NullJson, NumberJson}

\* A parser that never throws: it takes any text for an empty object.
JSONparse_lenient(content) ==
    [ok |-> TRUE, json |-> "object", type |-> "undefined", content |-> "undefined",
     vote |-> "undefined", proposalId |-> "undefined"]

\* A property an object does not have.
undefined == "undefined"

\* JSON.parse(String(message.content)) on the contents above: the value, or
\* the SyntaxError thrown. Reading a property of a number gives undefined.
JSONparse(content) ==
    LET Value(json, type, text, vote, proposalId) ==
            [ok |-> TRUE, json |-> json, type |-> type, content |-> text, vote |-> vote,
             proposalId |-> proposalId]
    IN  CASE content = ProposalJson -> Value("object", "proposal", "lunch", undefined, undefined)
          [] content = VoteYesJson -> Value("object", "vote", undefined, "true", "7")
          [] content = VoteNoJson -> Value("object", "vote", undefined, "false", "7")
          [] content = ExecutionJson -> Value("object", "execution", undefined, undefined, "7")
          [] content = InfoJson -> Value("object", "info", undefined, undefined, undefined)
          [] content = UnknownTypeJson -> Value("object", "transfer", undefined, undefined, undefined)
          [] content = EmptyObjectJson -> Value("object", undefined, undefined, undefined, undefined)
          [] content = NullJson -> Value("null", undefined, undefined, undefined, undefined)
          [] content = NumberJson -> Value("number", undefined, undefined, undefined, undefined)
          [] OTHER -> [ok |-> FALSE, json |-> "SyntaxError", type |-> undefined,
                       content |-> undefined, vote |-> undefined, proposalId |-> undefined]

\* A DecodedMessage of the stream; the stream may also yield no message.
Message(senderInboxId, conversationId, content) ==
    [defined |-> TRUE, senderInboxId |-> senderInboxId, conversationId |-> conversationId,
     content |-> content]

NoMessage ==
    [defined |-> FALSE, senderInboxId |-> <<>>, conversationId |-> "", content |-> ""]

FirstUser == <<"c", "d", "2">>

SecondUser == <<"e", "f", "3">>

\* The messages sampled for each agent: the llm agent does not look into the
\* content, the structured agent does not look at which user sent it.
MessageInputs(variant) ==
    IF variant = "llm"
    THEN {NoMessage, Message(BotInboxIdUpper, KnownConversation, NotJson),
          Message(FirstUser, KnownConversation, NotJson),
          Message(SecondUser, KnownConversation, NotJson),
          Message(SecondUser, UnknownConversation, NotJson)}
    ELSE {NoMessage, Message(BotInboxId, KnownConversation, ProposalJson),
          Message(BotInboxIdUpper, KnownConversation, ProposalJson),
          Message(SecondUser, UnknownConversation, ProposalJson)}
         \cup {Message(FirstUser, KnownConversation, c) : c \in Contents}

\* A text passed to conversation.send: its fixed part and the values put into it.
Reply(text, a, b) == [text |-> text, a |-> a, b |-> b]

NoReply == Reply("", "", "")

SorryReply ==
    Reply("Sorry, I encountered an error while processing your request. Please try again later.",
          "", "")

ErrorReply ==
    Reply("I encountered an error while processing your request. Please try again later.", "", "")

InvalidFormatReply ==
    Reply("Invalid message format. Please send a valid SquadSafe command.", "", "")

UnrecognizedReply ==
    Reply("Unrecognized or info message. Please use a valid SquadSafe command.", "", "")

\* What the language model answers when it answers.
AgentResponse == Reply("Proposal 1 created.", "", "")

\* The errors the steps of a handler raise, by their message.
InitializeError == <<"CDP wallet provider unavailable">>

ProcessError == <<"model request failed">>

NoConversationError == <<"Could not find conversation for ID: conv-9">>

SendError == <<"XMTP send failed">>

NullTypeError == <<"Cannot read properties of null (reading 'type')">>

ErrorTexts == {InitializeError, ProcessError, NoConversationError, SendError, NullTypeError}

\* The wallet the CDP provider creates when it is given no wallet data: a new
\* one at each call, numbered here by the calls made before.
NewWallet(n) == <<"w", <<"1", "2", "3", "4", "5", "6", "7", "8", "9">>[n + 1]>>

\* senderInboxId.toLowerCase() === client.inboxId.toLowerCase()
isSelf_caseSensitive(senderInboxId) == senderInboxId = BotInboxId

isSelf(senderInboxId) == toLowerCase(senderInboxId) = toLowerCase(BotInboxId)

\* A value that is there, for a variable that may hold undefined or null.
Data(v) == [set |-> TRUE, value |-> v]

\* getWalletData(userId): the content of the user's wallet file, null when
\* there is no file or reading it throws.
getWalletData(userId, readOk) ==
    IF disk[WalletPath(userId)].exists /\ readOk
    THEN Data(disk[WalletPath(userId)].content)
    ELSE Unset

\* saveWalletData(userId, walletData): the disk it leaves; it writes only
\* when there is no file, and a write that throws is logged and dropped.
saveWalletData(userId, walletData, writeOk) ==
    IF ~disk[WalletPath(userId)].exists /\ writeOk
    THEN [disk EXCEPT ![WalletPath(userId)] = File(walletData)]
    ELSE disk

\* initializeAgent(userId): whether it returns, the error it throws, the call
\* of configureWithWallet it makes, the disk it leaves and the lines it logs.
\* `failAt` is the awaited call that rejects.
initializeAgent(userId, readOk, failAt, writeOk) ==
    LET fresh == NewWallet(Len(walletRuns))
        storedWalletData == getWalletData(userId, readOk)
        cdpWalletData ==
            IF storedWalletData.set /\ storedWalletData.value # <<>>
            THEN storedWalletData ELSE Unset
        exportedWallet == IF cdpWalletData.set THEN cdpWalletData.value ELSE fresh
        found == Line("Wallet data for", Append(userId, IF cdpWalletData.set THEN "Found" ELSE "Not found"))
        warned ==
            IF disk[WalletPath(userId)].exists /\ ~readOk
            THEN {Line("Could not read wallet data from file:", <<"EACCES: permission denied">>)}
            ELSE {}
        notSaved ==
            IF ~disk[WalletPath(userId)].exists /\ ~writeOk
            THEN {Line("Failed to save wallet data to file:", <<"EACCES: permission denied">>)}
            ELSE {}
        failed == {Line("Failed to initialize agent:", InitializeError)}
        run == [userId |-> userId, cdpWalletData |-> cdpWalletData]
    IN  IF failAt = "none"
        THEN [ok |-> TRUE, error |-> <<>>, run |-> run,
              disk |-> saveWalletData(userId, exportedWallet, writeOk),
              lines |-> {found} \cup warned \cup notSaved]
        ELSE [ok |-> FALSE, error |-> InitializeError, run |-> run, disk |-> disk,
              lines |-> {found} \cup warned \cup failed]

FailPoints == {"none", "configureWithWallet", "exportWallet"}

\* JSON.parse throwing on text that is not JSON.
SyntaxErrorText == <<"Unexpected token h in JSON at position 0">>

\* handleSquadSafeMessage(msg, convo, client) up to its send: the handler the
\* switch on msg.type picks and the text that handler sends; reading the type
\* of null throws.
handleSquadSafeMessage(msg) ==
    IF msg.json = "null"
    THEN [threw |-> TRUE, route |-> "", reply |-> NoReply]
    ELSE CASE msg.type = "proposal" ->
                [threw |-> FALSE, route |-> "handleProposal",
                 reply |-> Reply("Proposal received: ", msg.content, "")]
           [] msg.type = "vote" ->
                [threw |-> FALSE, route |-> "handleVote",
                 reply |-> Reply("Vote received: ", IF msg.vote = "true" THEN "Yes" ELSE "No",
                                 msg.proposalId)]
           [] msg.type = "execution" ->
                [threw |-> FALSE, route |-> "handleExecution",
                 reply |-> Reply("Execution request received for proposal ", msg.proposalId, "")]
           [] OTHER ->
                [threw |-> FALSE, route |-> "default", reply |-> UnrecognizedReply]

\* A handler that took a named step.
did(h, step) == [h EXCEPT !.steps = Append(@, step)]

\* The catch block of handleMessage sending the message of the error it caught.
caught_sendsErrorText(h, error) ==
    IF h.conversation
    THEN [h EXCEPT !.errors = @ \cup {error}, !.pc = "sendError",
                   !.response = Reply(error[1], "", "")]
    ELSE [h EXCEPT !.errors = @ \cup {error}, !.pc = "Done"]

\* The catch block of handleMessage up to its await: with a conversation it
\* goes on to send the error reply, without one it returns.
caught(h, error) ==
    IF h.conversation
    THEN [h EXCEPT !.errors = @ \cup {error}, !.pc = "sendError", !.response = ErrorReply]
    ELSE [h EXCEPT !.errors = @ \cup {error}, !.pc = "Done"]

\* `await handleMessage(message, client)` in the loop of the listener: the
\* loop goes on when the handler has returned, ends when it has rejected, and
\* waits otherwise.
awaitHandleMessage_notAwaited(h) ==
    [listener EXCEPT !.pc = IF h.pc = "Rejected" THEN "Stopped" ELSE "Waiting"]

awaitHandleMessage(h) ==
    [listener EXCEPT !.pc = CASE h.pc \in {"none", "Done"} -> "Waiting"
                              [] h.pc = "Rejected" -> "Stopped"
                              [] OTHER -> "Handling"]

\* One send on the conversation of message m.
Sent(m, h, ok) == [m |-> m, reply |-> h.response, delivered |-> ok, errors |-> h.errors]

\* startMessageListener(client) up to the loop.
startMessageListener(variant) ==
    /\ listener = NoListener
    /\ listener' = [variant |-> variant, pc |-> "Waiting", taken |-> 0]
    /\ console' = console \cup {Line("Starting message listener...", <<>>)}
    /\ UNCHANGED <<providerVars, toolVars, env, disk, keyRuns, inbox, handlers, outbox, walletRuns>>

\* One turn of the loop: the stream yields a message and handleMessage runs
\* up to its first await. A message of the bot itself makes it return at once.
ForAwaitMessage(message) ==
    /\ listener.pc = "Waiting"
    /\ message \in MessageInputs(listener.variant)
    /\ Len(inbox) < MaxMessages
    /\ LET m == Len(inbox) + 1
           h == IF ~message.defined THEN NoHandler
                ELSE IF isSelf(message.senderInboxId) THEN [NoHandler EXCEPT !.pc = "Done"]
                ELSE IF listener.variant = "llm"
                THEN [NoHandler EXCEPT !.pc = "initializeAgent"]
                ELSE [NoHandler EXCEPT !.pc = "getConversationById"]
       IN  /\ inbox' = Append(inbox, message)
           /\ handlers' = [handlers EXCEPT ![m] = h]
           /\ listener' = [awaitHandleMessage(h) EXCEPT !.taken = m]
           /\ console' = console \cup
                 (IF h.pc = "initializeAgent"
                  THEN {Line("Received message from",
                             Append(message.senderInboxId, message.content))}
                  ELSE {})
    /\ UNCHANGED <<providerVars, toolVars, env, disk, keyRuns, outbox, walletRuns>>

\* `await initializeAgent(senderAddress)` in the llm handler.
InitializeAgent(m, readOk, failAt, writeOk) ==
    /\ handlers[m].pc = "initializeAgent"
    /\ LET r == initializeAgent(inbox[m].senderInboxId, readOk, failAt, writeOk)
           h == IF r.ok
                THEN [did(handlers[m], "initializeAgent") EXCEPT !.pc = "processMessage"]
                ELSE caught(did(handlers[m], "initializeAgent"), r.error)
       IN  /\ disk' = r.disk
           /\ walletRuns' = Append(walletRuns, r.run)
           /\ console' = console \cup r.lines \cup
                 (IF r.ok THEN {} ELSE {Line("Error handling message:", r.error)})
           /\ handlers' = [handlers EXCEPT ![m] = h]
           /\ listener' = awaitHandleMessage(h)
    /\ UNCHANGED <<providerVars, toolVars, env, keyRuns, inbox, outbox>>

\* `await processMessage(agent, config, content)`: the answer of the agent,
\* or the text its own catch block returns.
ProcessMessage(m, ok) ==
    /\ handlers[m].pc = "processMessage"
    /\ handlers' = [handlers EXCEPT ![m] =
          [did(@, "processMessage") EXCEPT
              !.pc = "getConversationById",
              !.response = IF ok THEN AgentResponse ELSE SorryReply,
              !.errors = IF ok THEN @ ELSE @ \cup {ProcessError}]]
    /\ console' = console \cup
          (IF ok THEN {} ELSE {Line("Error processing message:", ProcessError)})
    /\ UNCHANGED <<providerVars, toolVars, env, disk, keyRuns, inbox, listener, outbox, walletRuns>>

\* `await client.conversations.getConversationById(message.conversationId)`
\* and what follows it up to the next await: the throw when there is no
\* conversation, and in the structured handler the parse and the routing.
GetConversationById(m) ==
    /\ handlers[m].pc = "getConversationById"
    /\ LET h0 == did(handlers[m], "getConversationById")
           h1 == [h0 EXCEPT !.conversation = TRUE]
           squadMsg == JSONparse(inbox[m].content)
           routed == handleSquadSafeMessage(squadMsg)
           error == IF inbox[m].conversationId # KnownConversation THEN NoConversationError
                    ELSE NullTypeError
           h == IF inbox[m].conversationId # KnownConversation THEN caught(h0, error)
                ELSE IF listener.variant = "llm" THEN [h1 EXCEPT !.pc = "send"]
                ELSE IF ~squadMsg.ok
                THEN [did(h1, "JSON.parse.catch") EXCEPT
                         !.pc = "send", !.response = InvalidFormatReply,
                         !.errors = @ \cup {SyntaxErrorText}]
                ELSE IF routed.threw THEN caught(h1, error)
                ELSE [did(h1, routed.route) EXCEPT !.pc = "send", !.response = routed.reply]
       IN  /\ handlers' = [handlers EXCEPT ![m] = h]
           /\ listener' = awaitHandleMessage(h)
           /\ console' = console \cup
                 (IF error \in h.errors THEN {Line("Error handling message:", error)} ELSE {})
    /\ UNCHANGED <<providerVars, toolVars, env, disk, keyRuns, inbox, outbox, walletRuns>>

\* `await conversation.send(...)` in the try block: the response, the reply
\* of a route or the invalid-format reply. When it rejects, the catch block
\* runs.
Send(m, ok) ==
    /\ handlers[m].pc = "send"
    /\ LET h == IF ok THEN [did(handlers[m], "send") EXCEPT !.pc = "Done"]
                ELSE caught(did(handlers[m], "send"), SendError)
       IN  /\ outbox' = Append(outbox, Sent(m, handlers[m], ok))
           /\ handlers' = [handlers EXCEPT ![m] = h]
           /\ listener' = awaitHandleMessage(h)
           /\ console' = console \cup
                 (IF ok THEN {} ELSE {Line("Error handling message:", SendError)})
    /\ UNCHANGED <<providerVars, toolVars, env, disk, keyRuns, inbox, walletRuns>>

\* `await conversation.send(...)` in the catch block: nothing catches its
\* rejection, so handleMessage rejects, the loop of the listener throws and
\* the catch of main logs the error.
SendErrorReply(m, ok) ==
    /\ handlers[m].pc = "sendError"
    /\ LET h == IF ok THEN [did(handlers[m], "sendError") EXCEPT !.pc = "Done"]
                ELSE [did(handlers[m], "sendError") EXCEPT
                         !.pc = "Rejected", !.errors = @ \cup {SendError}]
       IN  /\ outbox' = Append(outbox, Sent(m, handlers[m], ok))
           /\ handlers' = [handlers EXCEPT ![m] = h]
           /\ listener' = awaitHandleMessage(h)
           /\ console' = console \cup (IF ok THEN {} ELSE {Line("", SendError)})
    /\ UNCHANGED <<providerVars, toolVars, env, disk, keyRuns, inbox, walletRuns>>

NextChat ==
    \/ \E variant \in Variants : startMessageListener(variant)
    \/ \E message \in MessageInputs("llm") \cup MessageInputs("structured") :
          ForAwaitMessage(message)
    \/ \E m \in MessageIds, readOk \in BOOLEAN, failAt \in FailPoints, writeOk \in BOOLEAN :
          InitializeAgent(m, readOk, failAt, writeOk)
    \/ \E m \in MessageIds, ok \in BOOLEAN : ProcessMessage(m, ok)
    \/ \E m \in MessageIds : GetConversationById(m)
    \/ \E m \in MessageIds, ok \in BOOLEAN : Send(m, ok)
    \/ \E m \in MessageIds, ok \in BOOLEAN : SendErrorReply(m, ok)

SpecChat == Init /\ [][NextChat]_vars

\* The replies sent for message m, in order.
RepliesTo(m) == SelectSeq(outbox, LAMBDA e : e.m = m)

\* Message m of the stream came from the bot's own inbox, in any casing.
FromBot(m) ==
    inbox[m].defined /\ toLowerCase(inbox[m].senderInboxId) = toLowerCase(BotInboxId)

\* handleMessage has ended for message m.
HandlerEnded(m) == handlers[m].pc \in {"Done", "Rejected"}

\* C22: for a message whose sender inbox id is the bot's own, in any casing,
\* handleMessage returns without taking a step: no agent is initialized for
\* that sender, no wallet is configured, nothing is logged and no reply is sent.
C22_SelfMessageIgnored ==
    \A m \in 1..Len(inbox) :
        FromBot(m) =>
            /\ handlers[m] = [NoHandler EXCEPT !.pc = "Done"]
            /\ RepliesTo(m) = <<>>
            /\ \A i \in 1..Len(walletRuns) : walletRuns[i].userId # inbox[m].senderInboxId
            /\ \A l \in console :
                  l.label = "Received message from" =>
                      l.value # Append(inbox[m].senderInboxId, inbox[m].content)

\* A message of the bot written in upper case was handled, and after it a
\* message of a user was answered.
C22_Witness ==
    \E m \in 1..Len(inbox) :
        /\ inbox[m].senderInboxId = BotInboxIdUpper
        /\ handlers[m].pc = "Done"
        /\ \E n \in (m + 1)..Len(inbox) : RepliesTo(n) # <<>>

\* The two fixed texts sent when handling a message has failed.
GenericReplies == {SorryReply, ErrorReply}

\* Message m came from a user and its conversation can be resolved.
Answerable(m) ==
    inbox[m].defined /\ ~FromBot(m) /\ inbox[m].conversationId = KnownConversation

\* The texts sent for message m.
RepliesSent(m) == {RepliesTo(m)[i].reply : i \in 1..Len(RepliesTo(m))}

\* C23: once handleMessage has ended for a message of a user whose
\* conversation can be resolved, a reply was sent to that conversation: one
\* reply that is not an error text when nothing failed, and one of the generic
\* error texts when agent initialization, processing or the first send failed.
C23_ReplySentWhenConversationResolves ==
    \A m \in 1..Len(inbox) :
        Answerable(m) /\ HandlerEnded(m) =>
            /\ RepliesTo(m) # <<>>
            /\ handlers[m].errors = {} =>
                  Len(RepliesTo(m)) = 1 /\ RepliesSent(m) \cap GenericReplies = {}
            /\ handlers[m].errors \cap {InitializeError, ProcessError, SendError} # {} =>
                  RepliesSent(m) \cap GenericReplies # {}

\* The text of an error appears in reply r.
HoldsErrorText(r) == \E e \in ErrorTexts \cup {SyntaxErrorText} : e[1] \in {r.text, r.a, r.b}

\* Every error raised so far has been written to the console.
ErrorsLogged ==
    \A m \in MessageIds : \A e \in handlers[m].errors \ {SyntaxErrorText} :
        \E l \in console : l.value = e

\* C24 as stated: every reply sent after an error was raised while the message
\* was processed is one of the two generic texts, the text of the error is in
\* no reply, and the error is in the server log.
C24_OnlyGenericTextAfterError ==
    /\ \A i \in 1..Len(outbox) :
          /\ ~HoldsErrorText(outbox[i].reply)
          /\ outbox[i].errors # {} => outbox[i].reply \in GenericReplies
    /\ ErrorsLogged

\* C24, amended: every reply sent after an error was raised while the message
\* was processed is a fixed text: one of the two generic texts, or the
\* invalid-format text when the only error so far is that the content is not
\* JSON. The text of the error is in no reply, and every error but the parse
\* failure is in the server log.
C24_OnlyFixedTextAfterError ==
    /\ \A i \in 1..Len(outbox) :
          /\ ~HoldsErrorText(outbox[i].reply)
          /\ outbox[i].errors # {} =>
                \/ outbox[i].reply \in GenericReplies
                \/ outbox[i].errors = {SyntaxErrorText} /\ outbox[i].reply = InvalidFormatReply
    /\ ErrorsLogged

\* Both generic texts and the invalid-format text were sent after errors.
C24_Witness ==
    /\ \E i \in 1..Len(outbox) : outbox[i].errors # {} /\ outbox[i].reply = ErrorReply
    /\ \E i \in 1..Len(outbox) : outbox[i].errors # {} /\ outbox[i].reply = InvalidFormatReply

\* C25: the listener is never stopped by the handling of a message: when
\* handleMessage has ended for a message, by returning or by rejecting, the
\* listener is waiting for the next message of the stream or handling it.
C25_ListenerSurvivesFailures ==
    \A m \in 1..Len(inbox) :
        HandlerEnded(m) => listener.pc \in {"Waiting", "Handling"}

\* The messages whose handleMessage has begun and not ended.
InFlight == {m \in MessageIds : handlers[m].pc \notin {"none", "Done", "Rejected"}}

\* C26: at most one execution of handleMessage is in flight; the handling of
\* a message has begun only if the handling of every earlier message of the
\* stream has ended; and the replies are sent in the order of the messages.
C26_OneHandlerAtATime ==
    /\ Cardinality(InFlight) <= 1
    /\ \A m \in 1..Len(inbox) :
          handlers[m].pc # "none" => \A k \in 1..(m - 1) : k \notin InFlight
    /\ \A i \in 1..Len(outbox) : \A j \in i..Len(outbox) : outbox[i].m <= outbox[j].m

\* Two messages of the stream were both answered, the second while no other
\* handler was running.
C26_Witness ==
    /\ RepliesTo(1) # <<>>
    /\ RepliesTo(2) # <<>>
    /\ handlers[1].pc = "Done"
    /\ handlers[2].pc = "Done"

\* The handlers of the three commands.
CommandHandlers == {"handleProposal", "handleVote", "handleExecution"}

\* The steps handleMessage took for message m.
StepsOf(m) == {handlers[m].steps[i] : i \in 1..Len(handlers[m].steps)}

\* Message m reached the parser of the structured handler with content that
\* is not JSON, and its handling has ended.
UnparseableHandled(m) ==
    /\ listener.variant = "structured"
    /\ Answerable(m)
    /\ HandlerEnded(m)
    /\ inbox[m].content \in {NotJson, TruncatedJson}

\* C27 as stated: a message whose content is not JSON gets exactly one
\* reply, the invalid-format text; no command handler runs and the generic
\* error reply is not sent.
C27_OnlyInvalidFormatReply ==
    \A m \in 1..Len(inbox) :
        UnparseableHandled(m) =>
            /\ Len(RepliesTo(m)) = 1
            /\ RepliesTo(m)[1].reply = InvalidFormatReply
            /\ StepsOf(m) \cap CommandHandlers = {}

\* C27, amended: a message whose content is not JSON gets the invalid-format
\* text as its first reply and no command handler runs; that reply is the
\* only one when its send succeeds, and when its send fails the generic error
\* reply is sent after it.
C27_InvalidFormatReplyFirst ==
    \A m \in 1..Len(inbox) :
        UnparseableHandled(m) =>
            /\ RepliesTo(m) # <<>>
            /\ RepliesTo(m)[1].reply = InvalidFormatReply
            /\ StepsOf(m) \cap CommandHandlers = {}
            /\ "default" \notin StepsOf(m)
            /\ IF RepliesTo(m)[1].delivered
               THEN Len(RepliesTo(m)) = 1
               ELSE Len(RepliesTo(m)) = 2 /\ RepliesTo(m)[2].reply = ErrorReply

\* A message that is not JSON got the invalid-format reply and nothing else,
\* and another got the generic error reply after a failed send.
C27_Witness ==
    /\ \E m \in 1..Len(inbox) :
          UnparseableHandled(m) /\ Len(RepliesTo(m)) = 1 /\ RepliesTo(m)[1].delivered
    /\ \E m \in 1..Len(inbox) : UnparseableHandled(m) /\ Len(RepliesTo(m)) = 2

\* The handler and the text handleSquadSafeMessage owes to a parsed message,
\* by its type.
RouteOf(type) ==
    CASE type = "proposal" -> "handleProposal"
      [] type = "vote" -> "handleVote"
      [] type = "execution" -> "handleExecution"
      [] OTHER -> "default"

\* The replies the routes send: the texts of the three commands and the
\* unrecognized text.
RouteTexts ==
    {"Proposal received: ", "Vote received: ", "Execution request received for proposal ",
     UnrecognizedReply.text}

RouteReplies(m) == SelectSeq(RepliesTo(m), LAMBDA e : e.reply.text \in RouteTexts)

\* Message m reached handleSquadSafeMessage (its content parsed), and its
\* handling has ended.
ParsedHandled(m) ==
    /\ listener.variant = "structured"
    /\ Answerable(m)
    /\ HandlerEnded(m)
    /\ inbox[m].content \notin {NotJson, TruncatedJson}

\* C28: for every parsed message handleSquadSafeMessage takes the route of
\* the message's type (proposal, vote, execution; the default route for any
\* other type or none) and that route sends exactly one reply, with the text
\* of that route.
C28_OneReplyPerRoute ==
    \A m \in 1..Len(inbox) :
        ParsedHandled(m) =>
            LET type == JSONparse(inbox[m].content).type
            IN  /\ StepsOf(m) \cap (CommandHandlers \cup {"default"}) = {RouteOf(type)}
                /\ Len(RouteReplies(m)) = 1
                /\ RouteReplies(m)[1].reply.text =
                      CASE type = "proposal" -> "Proposal received: "
                        [] type = "vote" -> "Vote received: "
                        [] type = "execution" -> "Execution request received for proposal "
                        [] OTHER -> UnrecognizedReply.text

\* C29: a wallet file that exists is never changed; a call of
\* configureWithWallet for a user whose wallet file exists is given the data
\* of that file; and a call for one user leaves the files of the other users
\* as they are.
C29_WalletWrittenOnce ==
    [][/\ \A u \in UserInboxIds :
             disk[WalletPath(u)].exists => disk'[WalletPath(u)] = disk[WalletPath(u)]
       /\ Len(walletRuns') > Len(walletRuns) =>
             LET run == walletRuns'[Len(walletRuns')]
             IN  /\ disk[WalletPath(run.userId)].exists =>
                       run.cdpWalletData = Data(disk[WalletPath(run.userId)].content)
                 /\ \A u \in UserInboxIds \ {run.userId} :
                       disk'[WalletPath(u)] = disk[WalletPath(u)]]_vars

\* The calls of loadOrCreateKeys that returned a wallet.
KeysReturned == {i \in 1..Len(keyRuns) : keyRuns[i].ok}

\* AGENT_PRIVATE_KEY is set to a key (an empty value counts as not set).
EnvKeySet == env["AGENT_PRIVATE_KEY"].set /\ env["AGENT_PRIVATE_KEY"].value # <<>>

\* C30: every call of loadOrCreateKeys that returns, returns the environment
\* key when one is set, and otherwise the key that the key file holds when
\* the call returns, be it stored before or generated and written by the
\* call; so with no environment key all calls return the same key. A key
\* file that exists is never written again.
C30_KeyPrecedence ==
    /\ [](\A i \in KeysReturned :
            IF EnvKeySet
            THEN keyRuns[i].privateKey = env["AGENT_PRIVATE_KEY"].value
            ELSE /\ disk[KEY_FILE].exists
                 /\ keyRuns[i].privateKey = trim(disk[KEY_FILE].content))
    /\ [](\A i \in KeysReturned : \A j \in KeysReturned :
            ~EnvKeySet => keyRuns[i].privateKey = keyRuns[j].privateKey)
    /\ [][/\ disk[KEY_FILE].exists => disk'[KEY_FILE] = disk[KEY_FILE]
          /\ EnvKeySet => disk' = disk]_vars

\* With no environment key and no key file, two calls returned: the first
\* generated a key and wrote it, the second read it back.
C30_Witness ==
    /\ ~EnvKeySet
    /\ Cardinality(KeysReturned) >= 2
    /\ disk[KEY_FILE].exists
    /\ disk[KEY_FILE].content \in RandomKeys

(***************************************************************************)
(* The proposalId of voteOnProposal and executeProposal, as a number and   *)
(* as the string of that number.                                           *)
(***************************************************************************)

\* String(n) for an integer number n: its sign and its decimal digits.
StringOfInteger(n) == (IF n.neg THEN <<"-">> ELSE <<>>) \o n.int

\* The integers sampled as proposalId: -1, 0, 1 and 3.
IdNumbers ==
    {Decimal(TRUE, <<"1">>, <<>>), Decimal(FALSE, <<"0">>, <<>>),
     Decimal(FALSE, <<"1">>, <<>>), Decimal(FALSE, <<"3">>, <<>>)}

\* z.union([z.string(), z.number()]): each integer in both representations.
IdInputs == {JsNumber(n) : n \in IdNumbers} \cup {JsString(StringOfInteger(n)) : n \in IdNumbers}

IdNames == {"voteOnProposal", "executeProposal"}

IdArgsInputs(name) ==
    IF name = "voteOnProposal"
    THEN [proposalId : IdInputs, support : BOOLEAN]
    ELSE [proposalId : IdInputs]

NextIds ==
    \/ \E c \in Calls, name \in IdNames : \E args \in IdArgsInputs(name) : Dispatch(c, name, args)
    \/ \E c \in Calls, txHash \in TxHashes : SubmitterResolve(c, txHash)
    \/ \E c \in Calls, text \in SubmitterErrors : SubmitterReject(c, text)
    \/ \E c \in Calls : Discard(c)

SpecIds == Init /\ [][NextIds]_vars

\* The call was refused by the check of its proposalId.
IdRejected(c) ==
    call[c].pc = "Failed" /\ call[c].outcome.step = "check"

\* Call d carries as a string the integer that call c carries as a number.
SameIdAsString(c, d) ==
    /\ Started(c) /\ Started(d)
    /\ call[c].name \in IdNames /\ call[d].name \in IdNames
    /\ call[c].args.proposalId.t = "number"
    /\ call[d].args.proposalId = JsString(StringOfInteger(call[c].args.proposalId.n))

\* C33: of two calls of voteOnProposal or executeProposal that carry the same
\* integer as proposalId, one as a number and one as its string, either both
\* are refused by the check of the proposalId or neither is.
C33_IdAcceptanceByValue ==
    \A c \in Calls : \A d \in Calls :
        SameIdAsString(c, d) => (IdRejected(c) <=> IdRejected(d))

(***************************************************************************)
(* The signer-based provider: createProposal, voteOnProposal and           *)
(* executeProposal call the contract through an ethers signer and wait     *)
(* for the transaction.                                                    *)
(***************************************************************************)

\* An address written without the 0x prefix.
NoPrefixAddress == SubSeq(LowerAddress, 3, 42)

\* ethers.isAddress(value) on hex strings: forty hex digits with or without
\* the 0x prefix, and the EIP-55 checksum when the letters are of both cases.
ethersIsAddress(value) ==
    LET body == IF Len(value) >= 2 /\ value[1] = "0" /\ value[2] = "x"
                THEN SubSeq(value, 3, Len(value)) ELSE value
        address == <<"0", "x">> \o body
        mixed == /\ \E i \in 1..Len(body) : body[i] \in UpperHex
                 /\ \E i \in 1..Len(body) : body[i] \in LowerHex
    IN  /\ Len(body) = 40
        /\ AllIn(body, HexChars)
        /\ mixed => checksumAddress(address) = address

\* Whether ethers can encode the value as a uint256 argument: an integer that
\* is not negative, and not the empty string.
uintEncodable(v) ==
    /\ BigInt(v).ok
    /\ ~(v.t = "string" /\ Len(v.s) = 0)
    /\ ~BigInt(v).neg \/ IsZeroDigits(BigInt(v).digits)

SignerNames == {"createProposal", "voteOnProposal", "executeProposal"}

SignerArgsInputs(name) ==
    CASE name = "createProposal" ->
           [description : ReasonInputs, amount : AmountInputs,
            recipient : AddressInputs \cup {NoPrefixAddress}]
      [] name = "voteOnProposal" -> [proposalId : IdInputs, support : BOOLEAN]
      [] OTHER -> [proposalId : IdInputs]

\* The uint256 argument of the contract call each action makes.
signerUint(name, args) == IF name = "createProposal" THEN args.amount ELSE args.proposalId

\* The contract function each action calls.
signerFunction(name) ==
    CASE name = "createProposal" -> "createProposal"
      [] name = "voteOnProposal" -> "vote"
      [] OTHER -> "execute"

\* The message of the check of createProposal that fails, "" when none does
\* or the action has no check.
signerCheck(name, args) ==
    IF name # "createProposal" THEN ""
    ELSE IF ~ethersIsAddress(args.recipient) THEN "Invalid recipient address"
    ELSE IF LeqZero(Number(args.amount)) THEN "Amount must be positive"
    ELSE ""

\* An action up to its first await: the checks, then the contract call.
SignerInvoke(name, args) ==
    /\ signer.pc = "Idle"
    /\ signer' =
          IF signerCheck(name, args) # ""
          THEN [NoSigner EXCEPT !.pc = "Thrown", !.name = name, !.args = args,
                                !.error = signerCheck(name, args)]
          ELSE [NoSigner EXCEPT !.pc = "Calling", !.name = name, !.args = args,
                                !.calls = <<[functionName |-> signerFunction(name), args |-> args]>>]
    /\ UNCHANGED <<providerVars, env, disk, console, keyRuns, chatVars, script>>

\* A contract call that answers at once with a success result.
ContractResolve_noWait(txHash) ==
    /\ signer.pc = "Calling"
    /\ uintEncodable(signerUint(signer.name, signer.args))
    /\ signer' = [signer EXCEPT !.pc = "Returned",
                                !.result = [success |-> TRUE, txHash |-> txHash]]
    /\ UNCHANGED <<providerVars, env, disk, console, keyRuns, chatVars, script>>

\* `await contract.f(...)` resolves with the transaction sent; the action
\* goes on to tx.wait().
ContractResolve(txHash) ==
    /\ signer.pc = "Calling"
    /\ uintEncodable(signerUint(signer.name, signer.args))
    /\ signer' = [signer EXCEPT !.pc = "Waiting", !.result.txHash = txHash]
    /\ UNCHANGED <<providerVars, env, disk, console, keyRuns, chatVars, script>>

\* `await contract.f(...)` rejects: the argument cannot be encoded, the call
\* reverts at gas estimation, or the node fails. The action throws.
ContractReject(text) ==
    /\ signer.pc = "Calling"
    /\ signer' = [signer EXCEPT !.pc = "Thrown", !.error = text]
    /\ UNCHANGED <<providerVars, env, disk, console, keyRuns, chatVars, script>>

\* `await tx.wait()` resolves: the action returns { success: true, txHash }.
WaitResolve ==
    /\ signer.pc = "Waiting"
    /\ signer' = [signer EXCEPT !.pc = "Returned", !.waits = @ + 1, !.result.success = TRUE]
    /\ UNCHANGED <<providerVars, env, disk, console, keyRuns, chatVars, script>>

\* `await tx.wait()` rejects (the transaction reverted or was replaced): the
\* action throws and returns nothing.
WaitReject(text) ==
    /\ signer.pc = "Waiting"
    /\ signer' = [signer EXCEPT !.pc = "Thrown", !.error = text,
                                !.result = [success |-> FALSE, txHash |-> ""]]
    /\ UNCHANGED <<providerVars, env, disk, console, keyRuns, chatVars, script>>

\* The caller has the result or the error; the provider is free again.
SignerDone ==
    /\ signer.pc \in {"Returned", "Thrown"}
    /\ signer' = NoSigner
    /\ UNCHANGED <<providerVars, env, disk, console, keyRuns, chatVars, script>>

NextSigner ==
    \/ \E name \in SignerNames : \E args \in SignerArgsInputs(name) : SignerInvoke(name, args)
    \/ \E txHash \in TxHashes : ContractResolve(txHash)
    \/ \E text \in SubmitterErrors : ContractReject(text)
    \/ WaitResolve
    \/ \E text \in SubmitterErrors : WaitReject(text)
    \/ SignerDone

SpecSigner == Init /\ [][NextSigner]_vars

\* Sampled recipients that ethers.isAddress refuses.
InvalidRecipients == {BadChecksumAddress, ShortAddress}

\* C32: the signer-based actions hold a success result only when they have
\* returned, after one contract call and one completed wait, and the result
\* carries the hash of that call's transaction; while the call or the wait is
\* pending, and after either has failed, there is no success result; and
\* createProposal with a recipient that is not a valid address or an amount
\* that is zero or negative throws before any contract call.
C32_SuccessOnlyAfterWait ==
    /\ signer.result.success =>
          /\ signer.pc = "Returned"
          /\ Len(signer.calls) = 1
          /\ signer.waits = 1
          /\ signer.result.txHash \in TxHashes
    /\ signer.pc = "Returned" => signer.result.success
    /\ signer.pc = "Thrown" => signer.result = [success |-> FALSE, txHash |-> ""]
    /\ (/\ signer.name = "createProposal"
        /\ \/ signer.args.recipient \in InvalidRecipients
           \/ signer.args.amount \in NonPositiveValues) =>
          /\ signer.pc = "Thrown"
          /\ signer.calls = <<>>
          /\ signer.error \in {"Invalid recipient address", "Amount must be positive"}

\* createProposal returned its success result after the wait.
C32_Witness ==
    /\ signer.name = "createProposal"
    /\ signer.pc = "Returned"
    /\ signer.result.success
    /\ signer.waits = 1
    /\ signer.args.recipient = NoPrefixAddress

(***************************************************************************)
(* main of the end-to-end script: the five steps of the vault lifecycle,   *)
(* each a writeContract followed by waitForTransactionReceipt.             *)
(***************************************************************************)

Lifecycle == <<"addMember", "propose", "vote", "execute", "removeMember">>

\* The value of a hex digit, and BigInt(topic) for a topic of two hex digits.
HexDigitValue(ch) ==
    CASE ch = "a" -> 10 [] ch = "b" -> 11 [] ch = "c" -> 12
      [] ch = "d" -> 13 [] ch = "e" -> 14 [] ch = "f" -> 15
      [] OTHER -> DigitVal[ch]

BigIntOfTopic(topic) == 16 * HexDigitValue(topic[3]) + HexDigitValue(topic[4])

\* The ProposalCreated log of a receipt: the id the vault gave the proposal
\* and the topic that carries it; or no such log in the receipt.
NoLog == [found |-> FALSE, id |-> 0, topic |-> <<>>]

ProposalLogs ==
    {[found |-> TRUE, id |-> 2, topic |-> <<"0", "x", "0", "2">>],
     [found |-> TRUE, id |-> 10, topic |-> <<"0", "x", "0", "a">>]}

\* receipt.status
ReceiptStatuses == {"success", "reverted"}

\* The receipts the chain can answer the transaction of a step with: a
\* reverted transaction has no logs, and only propose emits ProposalCreated.
ReceiptInputs(step) ==
    {[status |-> "reverted", log |-> NoLog], [status |-> "success", log |-> NoLog]}
    \cup (IF Lifecycle[step] = "propose"
          THEN {[status |-> "success", log |-> l] : l \in ProposalLogs}
          ELSE {})

\* The account and the arguments of the writeContract of each step.
member1 == AddressOf(OrElse(env["MEMBER1_KEY"], AnvilMemberKey))

Transaction(step) ==
    CASE Lifecycle[step] = "addMember" ->
           [functionName |-> "addMember", account |-> "owner", args |-> <<member1>>]
      [] Lifecycle[step] = "propose" ->
           [functionName |-> "propose", account |-> "owner",
            args |-> <<zeroAddress, parseEther(<<"0", ".", "1">>), member1, "Test E2E payment">>]
      [] Lifecycle[step] = "vote" ->
           [functionName |-> "vote", account |-> "member1", args |-> <<script.proposalId, TRUE>>]
      [] Lifecycle[step] = "execute" ->
           [functionName |-> "execute", account |-> "owner", args |-> <<script.proposalId>>]
      [] OTHER ->
           [functionName |-> "removeMember", account |-> "owner", args |-> <<member1>>]

\* main().catch: the error is logged and the process exits with code 1.
ScriptFails(text) ==
    /\ script' = [script EXCEPT !.pc = "Exited", !.failed = TRUE, !.exitCode = 1]
    /\ console' = console \cup {Line("E2E test failed:", <<text>>)}

\* `await client.writeContract(...)` of the current step: the transaction is
\* submitted and its hash returned, or the call rejects.
WriteContract(ok, text) ==
    /\ script.pc = "writeContract"
    /\ IF ok
       THEN /\ script' = [script EXCEPT !.pc = "waitForTransactionReceipt",
                                        !.submitted = Append(@, Transaction(script.step))]
            /\ UNCHANGED console
       ELSE ScriptFails(text)
    /\ UNCHANGED <<providerVars, env, disk, keyRuns, chatVars, signer>>

\* `await publicClient.waitForTransactionReceipt({ hash })` resolves with the
\* receipt, whatever its status. After propose the id is read from the
\* ProposalCreated log, 1n when there is none; after vote the script goes on
\* to advance the time; after removeMember main returns.
WaitForTransactionReceipt(receipt) ==
    /\ script.pc = "waitForTransactionReceipt"
    /\ receipt \in ReceiptInputs(script.step)
    /\ script' =
          [script EXCEPT
              !.receipts = Append(@, receipt),
              !.proposalId =
                  IF Lifecycle[script.step] # "propose" THEN @
                  ELSE IF receipt.log.found THEN BigIntOfTopic(receipt.log.topic) ELSE 1,
              !.step = IF script.step < Len(Lifecycle) THEN @ + 1 ELSE @,
              !.pc = CASE Lifecycle[script.step] = "vote" -> "evm_increaseTime"
                       [] Lifecycle[script.step] = "removeMember" -> "Exited"
                       [] OTHER -> "writeContract",
              !.exitCode = IF Lifecycle[script.step] = "removeMember" THEN 0 ELSE @]
    /\ console' = console \cup
          (IF Lifecycle[script.step] = "removeMember"
           THEN {Line("--- E2E Test Complete ---", <<>>)} ELSE {})
    /\ UNCHANGED <<providerVars, env, disk, keyRuns, chatVars, signer>>

\* `await publicClient.waitForTransactionReceipt({ hash })` rejects (timeout,
\* node failure).
WaitForTransactionReceiptRejects(text) ==
    /\ script.pc = "waitForTransactionReceipt"
    /\ ScriptFails(text)
    /\ UNCHANGED <<providerVars, env, disk, keyRuns, chatVars, signer>>

\* The two requests before execute: evm_increaseTime, then evm_mine.
TransportRequest(ok, text) ==
    /\ script.pc \in {"evm_increaseTime", "evm_mine"}
    /\ IF ok
       THEN /\ script' = [script EXCEPT
                    !.pc = IF @ = "evm_increaseTime" THEN "evm_mine" ELSE "writeContract"]
            /\ UNCHANGED console
       ELSE ScriptFails(text)
    /\ UNCHANGED <<providerVars, env, disk, keyRuns, chatVars, signer>>

NextE2e ==
    \/ \E ok \in BOOLEAN, text \in SubmitterErrors : WriteContract(ok, text)
    \/ \E status \in ReceiptStatuses, l \in ProposalLogs \cup {NoLog} :
          WaitForTransactionReceipt([status |-> status, log |-> l])
    \/ \E text \in SubmitterErrors : WaitForTransactionReceiptRejects(text)
    \/ \E ok \in BOOLEAN, text \in SubmitterErrors : TransportRequest(ok, text)

SpecE2e == Init /\ [][NextE2e]_vars

\* The function names of the transactions submitted, in order.
SubmittedNames == [i \in 1..Len(script.submitted) |-> script.submitted[i].functionName]

\* C31: the transactions submitted are addMember, propose, vote, execute,
\* removeMember in that order, each after the receipt of the one before; vote
\* and execute carry the id of the ProposalCreated log of the propose
\* receipt; and after a step that failed (a rejected call, or a transaction
\* that reverted) no further transaction is submitted and the process exits
\* with code 1.
C31_LifecycleInOrder ==
    /\ SubmittedNames = SubSeq(Lifecycle, 1, Len(script.submitted))
    /\ Len(script.receipts) \in {Len(script.submitted) - 1, Len(script.submitted)}
    /\ \A i \in 1..Len(script.submitted) :
          script.submitted[i].functionName \in {"vote", "execute"} =>
              /\ script.receipts[2].log.found
              /\ script.submitted[i].args[1] = script.receipts[2].log.id
    /\ \A i \in 1..Len(script.receipts) :
          script.receipts[i].status = "reverted" =>
              /\ Len(script.submitted) = i
              /\ script.pc = "Exited"
              /\ script.exitCode = 1
    /\ script.failed => script.pc = "Exited" /\ script.exitCode = 1

====
